---------------------------- MODULE Spec2Model ----------------------------
(***************************************************************************)
(* Conclave: the debate orchestration and belief-revision engine           *)
(* (server/lib/debate-engine.ts) together with the HTTP handlers that run  *)
(* it and persist its sessions (server/index.ts), the verification client  *)
(* (server/lib/mcp-client.ts), the mock adapter and the conclave-tools     *)
(* verify_plan tool.                                                       *)
(*                                                                         *)
(* Numbers.  A JavaScript number holding a probability, weight, confidence *)
(* or reliability is modelled in fixed point: the integer p stands for     *)
(* p / Unit, and every product and quotient is rounded to the nearest      *)
(* representable value, as IEEE arithmetic rounds.  Sums of probabilities  *)
(* are therefore 1 only up to the rounding of the representation.          *)
(*                                                                         *)
(* Text.  A scenario is a sequence of one-character strings, so that the   *)
(* keyword detector is a real substring search.  Any other text whose      *)
(* content is produced outside the engine is a record [s, n, cut]: a label *)
(* s, a length n in characters and whether it was truncated.               *)
(***************************************************************************)
EXTENDS Integers, Sequences, FiniteSets, TLC

VARIABLES
    processEnv,     \* process.env: the settings the server reads and writes
    clock,          \* the wall clock read by new Date(), in milliseconds
    sessionsFile,   \* server/data/sessions.json: the persisted session list
    handler,        \* per request slot: the locals of handleRun and runDebate
    completed,      \* history: sessions returned by runDebate and persisted, oldest first
    failedRuns      \* history: number of submit-run requests answered with an error

vars == <<processEnv, clock, sessionsFile, handler, completed, failedRuns>>

-----------------------------------------------------------------------------
(* Bounds of the model *)

MaxStoreRuns == 27
MaxFailedRuns == 1

-----------------------------------------------------------------------------
(* Fixed-point numbers *)

Unit == 10000

\* An optional value (T | undefined) is <<>> when absent and <<v>> when present
NoValue == <<>>
Some(v) == <<v>>
Get(o) == o[1]

Min(a, b) == IF a <= b THEN a ELSE b
Max(a, b) == IF a >= b THEN a ELSE b

\* a / b rounded to the nearest integer, for a >= 0 and b > 0
DivRound(a, b) == (2 * a + b) \div (2 * b)

\* x * y of two fixed-point numbers
Mul(x, y) == DivRound(x * y, Unit)

\* x / y of two fixed-point numbers
Quot(x, y) == DivRound(x * Unit, y)

Range(s) == {s[i] : i \in DOMAIN s}

-----------------------------------------------------------------------------
(* Text *)

UpperCase == <<"A", "B", "C", "D", "E", "F", "G", "H", "I", "J", "K", "L", "M",
               "N", "O", "P", "Q", "R", "S", "T", "U", "V", "W", "X", "Y", "Z">>
LowerCase == <<"a", "b", "c", "d", "e", "f", "g", "h", "i", "j", "k", "l", "m",
               "n", "o", "p", "q", "r", "s", "t", "u", "v", "w", "x", "y", "z">>

toLowerCase(text) ==
    [i \in DOMAIN text |->
        IF \E k \in DOMAIN UpperCase : UpperCase[k] = text[i]
        THEN LowerCase[CHOOSE k \in DOMAIN UpperCase : UpperCase[k] = text[i]]
        ELSE text[i]]

includes(text, word) ==
    \E i \in 1..(Len(text) - Len(word) + 1) :
        SubSeq(text, i, i + Len(word) - 1) = word

codeKeywords ==
    << <<"c","o","d","e">>,
       <<"b","u","g">>,
       <<"e","r","r","o","r">>,
       <<"s","t","a","c","k">>,
       <<"t","e","s","t">>,
       <<"b","u","i","l","d">>,
       <<"d","e","p","l","o","y">>,
       <<"a","p","i">>,
       <<"r","e","p","o">>,
       <<"t","y","p","e","s","c","r","i","p","t">>,
       <<"j","a","v","a","s","c","r","i","p","t">>,
       <<"p","y","t","h","o","n">>,
       <<"r","u","s","t">>,
       <<"j","a","v","a">>,
       <<"c","o","m","p","i","l","e">>,
       <<"r","u","n","t","i","m","e">>,
       <<"e","x","c","e","p","t","i","o","n">> >>

isCodeScenario(text) ==
    LET lowered == toLowerCase(text)
    IN  \E k \in DOMAIN codeKeywords : includes(lowered, codeKeywords[k])

defaultScenario ==
    <<"F","i","x"," ","f","a","i","l","i","n","g"," ","t","e","s","t">>

\* a text of n characters labelled s
Text(s, n) == [s |-> s, n |-> n, cut |-> FALSE]

\* `${prefix}${message}`: the label of the prefix, the length of both
Concat(prefix, message) ==
    [s |-> prefix.s, n |-> prefix.n + message.n, cut |-> message.cut]

TruncateMax == 1000

truncate(value, max) ==
    IF value.n > max THEN [s |-> value.s, n |-> max + 3, cut |-> TRUE] ELSE value

-----------------------------------------------------------------------------
(* Agent roster, plans and weights *)

agents == <<"planner", "skeptic", "security", "cost", "synthesizer">>

Roles == Range(agents)

proposalOrder == <<"planner", "skeptic", "security", "cost">>

planIds == <<"plan-a", "plan-b", "plan-c", "plan-d">>

\* the fixed plans runDebate starts from, before any proposal is collected
basePlans ==
    [i \in 1..4 |->
        [id |-> planIds[i],
         title |-> "base plan",
         summary |-> Text("base plan summary", 50),
         steps |-> <<"base step 1", "base step 2", "base step 3">>,
         risks |-> <<Text("base plan risk", 50)>>]]

proposalPlanMap(role) ==
    CASE role = "planner" -> "plan-a"
      [] role = "skeptic" -> "plan-b"
      [] role = "security" -> "plan-c"
      [] role = "cost" -> "plan-d"
      [] OTHER -> "plan-a"

DAMPING_FACTOR == 800

clampUnit(value) == Min(Unit, Max(0, value))

\* a weight taken as given
unclamped(value) == value

clampWeight(value) == Min(Unit, Max(0, value))

defaultWeights ==
    [planner |-> 3500, skeptic |-> 4500, security |-> 5000, cost |-> 4000,
     synthesizer |-> 6000]

\* overrides?.role ?? defaultWeights.role
Override(overrides, role) ==
    IF overrides = NoValue THEN defaultWeights[role]
    ELSE IF Get(overrides)[role] = NoValue THEN defaultWeights[role]
    ELSE Get(Get(overrides)[role])

resolveWeights(overrides) ==
    [planner |-> clampWeight(Override(overrides, "planner")),
     skeptic |-> clampWeight(Override(overrides, "skeptic")),
     security |-> clampWeight(Override(overrides, "security")),
     cost |-> clampWeight(Override(overrides, "cost")),
     synthesizer |-> clampWeight(Override(overrides, "synthesizer"))]

-----------------------------------------------------------------------------
(* Belief revision *)

RECURSIVE SumProbability(_)
SumProbability(entries) ==
    IF entries = <<>> THEN 0
    ELSE entries[1].probability + SumProbability(Tail(entries))

\* the division without the guard for a total of 0: the entries stay as they are
normalizeNonZero(entries) ==
    LET total == SumProbability(entries)
    IN  IF total = 0 THEN entries
        ELSE [i \in DOMAIN entries |->
                [entries[i] EXCEPT !.probability = Quot(entries[i].probability, total)]]

normalizeEntries(entries) ==
    LET total == SumProbability(entries)
    IN  IF total = 0
        THEN LET uniform == Quot(Unit, Len(entries) * Unit)
             IN  [i \in DOMAIN entries |-> [entries[i] EXCEPT !.probability = uniform]]
        ELSE [i \in DOMAIN entries |->
                [entries[i] EXCEPT !.probability = Quot(entries[i].probability, total)]]

\* damping of the entries as they stand, the normalisation left out
DampOnly(entries) ==
    LET uniform == Quot(Unit, Len(entries) * Unit)
    IN  [i \in DOMAIN entries |->
            [entries[i] EXCEPT !.probability =
                Mul(Unit - DAMPING_FACTOR, entries[i].probability)
                    + Mul(DAMPING_FACTOR, uniform)]]

\* normalisation alone, the damping toward the uniform prior left out
NormalizeOnly(entries) == normalizeEntries(entries)

dampAndNormalize(entries) ==
    LET normalized == normalizeEntries(entries)
        uniform == Quot(Unit, Len(normalized) * Unit)
    IN  [i \in DOMAIN normalized |->
            [normalized[i] EXCEPT !.probability =
                Mul(Unit - DAMPING_FACTOR, normalized[i].probability)
                    + Mul(DAMPING_FACTOR, uniform)]]

\* base.getTime() + offsetMinutes * 60000, rendered as an ISO string: the
\* rendering has a fixed width for the years in range and keeps the order,
\* so the instant in milliseconds stands for it
\* the offset dropped: every stamp is the run start
toTimestampUnshifted(base, offsetMinutes) == base

toTimestamp(base, offsetMinutes) == base + offsetMinutes * 60000

recordSnapshot(timestamp, note, entries) ==
    [timestamp |-> timestamp, note |-> note, entries |-> entries]

\* the two weights of the blend exchanged
applyWeightSwapped(previous, update, timestamp, weight) ==
    [i \in DOMAIN previous |->
        IF previous[i].planId # update.planId
        THEN previous[i]
        ELSE [planId |-> previous[i].planId,
              probability |-> clampUnit(Mul(previous[i].probability, weight)
                                            + Mul(update.probability, Unit - weight)),
              updatedBy |-> update.updatedBy,
              rationale |-> update.rationale,
              timestamp |-> timestamp]]

\* the update with every entry stamped, as the callers do after it
applyWeightedStamped(previous, update, timestamp, weight) ==
    [i \in DOMAIN previous |->
        IF previous[i].planId # update.planId
        THEN [previous[i] EXCEPT !.timestamp = timestamp]
        ELSE [planId |-> previous[i].planId,
              probability |-> clampUnit(Mul(previous[i].probability, Unit - weight)
                                            + Mul(update.probability, weight)),
              updatedBy |-> update.updatedBy,
              rationale |-> update.rationale,
              timestamp |-> timestamp]]

applyWeightedUpdate(previous, update, timestamp, weight) ==
    [i \in DOMAIN previous |->
        IF previous[i].planId # update.planId
        THEN previous[i]
        ELSE LET weighted == Mul(previous[i].probability, Unit - weight)
                                + Mul(update.probability, weight)
             IN  [planId |-> previous[i].planId,
                  probability |-> clampUnit(weighted),
                  updatedBy |-> update.updatedBy,
                  rationale |-> update.rationale,
                  timestamp |-> timestamp]]

Stamp(entries, timestamp) ==
    [i \in DOMAIN entries |-> [entries[i] EXCEPT !.timestamp = timestamp]]

initialProbabilitiesForPlans(baseTime, plans) ==
    LET timestamp == toTimestamp(baseTime, 1)
    IN  [i \in DOMAIN plans |->
            [planId |-> plans[i].id,
             probability |-> 2500,
             updatedBy |-> "planner",
             rationale |-> "Initial prior assigned by Planner.",
             timestamp |-> timestamp]]

\* verification.reliability ?? (verification.passed ? 0.9 : 0.75)
ReliabilityOf(verification) ==
    IF verification.reliability # NoValue THEN Get(verification.reliability)
    ELSE IF verification.passed THEN 9000 ELSE 7500

\* the update made at the weight of the synthesizer, whatever the reliability
evaluateAtRoleWeight(previous, verification, planId, baseTime, weight) ==
    LET timestamp == toTimestamp(baseTime, 16)
        targetProbability == IF verification.passed THEN 8200 ELSE 1800
        updated == applyWeightedUpdate(
                       previous,
                       [planId |-> planId,
                        probability |-> targetProbability,
                        updatedBy |-> "synthesizer",
                        rationale |-> "Verification applied."],
                       timestamp,
                       clampWeight(weight))
    IN  dampAndNormalize(Stamp(updated, timestamp))

evaluateVerification(previous, verification, planId, baseTime, weight) ==
    LET timestamp == toTimestamp(baseTime, 16)
        reliability == ReliabilityOf(verification)
        effectiveWeight == clampWeight(Mul(weight, reliability))
        targetProbability == IF verification.passed THEN 8200 ELSE 1800
        updated == applyWeightedUpdate(
                       previous,
                       [planId |-> planId,
                        probability |-> targetProbability,
                        updatedBy |-> "synthesizer",
                        rationale |-> IF verification.passed
                                      THEN "Verification passed; confidence boosted with damping."
                                      ELSE "Verification failed; confidence reduced with damping."],
                       timestamp,
                       effectiveWeight)
    IN  dampAndNormalize(Stamp(updated, timestamp))

RECURSIVE ApplyUpdates(_, _, _, _, _)
ApplyUpdates(result, agent, updates, timestamp, weight) ==
    IF updates = <<>> THEN result
    ELSE ApplyUpdates(
             applyWeightedUpdate(
                 result,
                 [planId |-> updates[1].planId,
                  probability |-> updates[1].probability,
                  updatedBy |-> agent,
                  rationale |-> updates[1].rationale],
                 timestamp,
                 weight),
             agent, Tail(updates), timestamp, weight)

\* the updates applied and stamped, the distribution left as they leave it
reviseWithoutNormalizing(previous, agent, updates, baseTime, offset, weight) ==
    LET timestamp == toTimestamp(baseTime, offset)
    IN  Stamp(ApplyUpdates(previous, agent, updates, timestamp, weight), timestamp)

reviseFromAgent(previous, agent, updates, baseTime, offset, weight) ==
    LET timestamp == toTimestamp(baseTime, offset)
    IN  dampAndNormalize(Stamp(ApplyUpdates(previous, agent, updates, timestamp, weight), timestamp))

\* an unstable insertion: an entry of equal probability overtakes the earlier one
RECURSIVE InsertUnstable(_, _)
InsertUnstable(sorted, entry) ==
    IF sorted = <<>> THEN <<entry>>
    ELSE IF sorted[1].probability - entry.probability <= 0
         THEN <<entry>> \o sorted
         ELSE <<sorted[1]>> \o InsertUnstable(Tail(sorted), entry)

\* [...entries].sort((a, b) => b.probability - a.probability): Array.prototype.sort
\* is stable, so entries of equal probability keep their order
RECURSIVE InsertByProbability(_, _)
InsertByProbability(sorted, entry) ==
    IF sorted = <<>> THEN <<entry>>
    ELSE IF sorted[1].probability - entry.probability < 0
         THEN <<entry>> \o sorted
         ELSE <<sorted[1]>> \o InsertByProbability(Tail(sorted), entry)

RECURSIVE SortByProbability(_)
SortByProbability(entries) ==
    IF entries = <<>> THEN <<>>
    ELSE InsertByProbability(SortByProbability(SubSeq(entries, 1, Len(entries) - 1)),
                             entries[Len(entries)])

\* sorted[0]?.planId ?? "plan-a"
pickFinalPlanId(verified) ==
    LET sorted == SortByProbability(verified)
    IN  IF sorted = <<>> THEN "plan-a" ELSE sorted[1].planId

-----------------------------------------------------------------------------
(* Configuration of the text-generation provider *)

\* enabled: Boolean(model && (provider === "ollama" ? (url ?? default) : url && apiKey)).
\* For groq the url and the model have built-in defaults, so the key decides;
\* for ollama the url has a default, so the model decides.
\* enabled as soon as a url is known, and both providers have a default url
configByUrl(env, providerOverride) ==
    LET providerRaw == IF providerOverride # NoValue THEN Get(providerOverride)
                       ELSE IF env.LLM_PROVIDER # NoValue THEN Get(env.LLM_PROVIDER)
                       ELSE "groq"
        provider == IF providerRaw = "ollama" THEN "ollama" ELSE "groq"
    IN  [provider |-> provider,
         enabled |-> TRUE]

getLlmConfig(env, providerOverride) ==
    LET providerRaw == IF providerOverride # NoValue THEN Get(providerOverride)
                       ELSE IF env.LLM_PROVIDER # NoValue THEN Get(env.LLM_PROVIDER)
                       ELSE "groq"
        provider == IF providerRaw = "ollama" THEN "ollama" ELSE "groq"
    IN  [provider |-> provider,
         enabled |-> IF provider = "ollama" THEN env.OLLAMA_MODEL ELSE env.GROQ_API_KEY]

NotConfiguredMessage ==
    "LLM provider is not configured. Check GROQ_API_KEY/GROQ_MODEL or OLLAMA_URL/OLLAMA_MODEL."

reasonsTarget(weight) ==
    IF weight >= 7000 THEN 4
    ELSE IF weight >= 5000 THEN 3
    ELSE IF weight >= 3000 THEN 2
    ELSE 1

-----------------------------------------------------------------------------
(* Mock adapter *)

\* outputs.find((item) => item.planId === request.plan.id) ?? outputs[0]
selectOutput(plan) ==
    LET planId == IF plan.id \in Range(planIds) THEN plan.id ELSE "plan-a"
        passed == planId = "plan-b"
    IN  [passed |-> passed,
         output |-> CASE planId = "plan-a" -> Text("mock output plan-a", 372)
                      [] planId = "plan-b" -> Text("mock output plan-b", 195)
                      [] planId = "plan-c" -> Text("mock output plan-c", 263)
                      [] OTHER -> Text("mock output plan-d", 273),
         summary |-> CASE planId = "plan-a" -> "Two tests still failing after change."
                       [] planId = "plan-b" -> "All tests passing after role fallback fix."
                       [] planId = "plan-c" -> "Mocks updated but integration still failing."
                       [] OTHER -> "Input validation changed but tests still failing.",
         reliability |-> Some(IF passed THEN 9000 ELSE 7500),
         adapterName |-> "mock",
         warning |-> NoValue]

\* the verification result runDebate starts from
skippedVerification ==
    [passed |-> TRUE,
     output |-> Text("Verification skipped.", 21),
     summary |-> "Verification skipped.",
     reliability |-> NoValue,
     adapterName |-> "mock",
     warning |-> NoValue]

-----------------------------------------------------------------------------
(* Plans, transcript, timeline and evidence *)

FindProposal(proposals, role) ==
    IF \E i \in DOMAIN proposals : proposals[i].agent = role
    THEN Some(proposals[CHOOSE i \in DOMAIN proposals :
                            /\ proposals[i].agent = role
                            /\ \A j \in 1..(i - 1) : proposals[j].agent # role])
    ELSE NoValue

\* a role without a proposal keeps its base plan
plansOrBasePlans(proposals) ==
    [index \in 1..4 |->
        LET proposal == FindProposal(proposals, proposalOrder[index])
        IN  IF proposal = NoValue THEN basePlans[index]
            ELSE [id |-> planIds[index],
                  title |-> "role proposal",
                  summary |-> Get(proposal).proposal,
                  steps |-> Get(proposal).rationale,
                  risks |-> <<Text("Requires validation against real-world constraints.", 51)>>]]

plansFromProposals(proposals) ==
    [index \in 1..4 |->
        LET role == proposalOrder[index]
            proposal == FindProposal(proposals, role)
        IN  [id |-> planIds[index],
             title |-> IF proposal # NoValue THEN "role proposal" ELSE "Plan n",
             summary |-> IF proposal # NoValue THEN Get(proposal).proposal
                         ELSE Text("No proposal available.", 22),
             steps |-> IF proposal # NoValue /\ Len(Get(proposal).rationale) > 0
                       THEN Get(proposal).rationale
                       ELSE <<"Gather details", "Draft approach", "Validate outcome">>,
             risks |-> <<Text("Requires validation against real-world constraints.", 51)>>]]

planForRole(role) ==
    CASE role = "planner" -> "plan-a"
      [] role = "skeptic" -> "plan-b"
      [] role = "security" -> "plan-c"
      [] role = "cost" -> "plan-d"
      [] OTHER -> "plan-b"

RECURSIVE TranscriptFrom(_, _, _, _)
TranscriptFrom(index, baseTime, proposals, finalSolution) ==
    IF index > Len(agents) THEN <<>>
    ELSE LET role == agents[index]
             proposal == FindProposal(proposals, role)
             timestamp == baseTime + (index - 1) * 180000
             rest == TranscriptFrom(index + 1, baseTime, proposals, finalSolution)
         IN  IF role = "synthesizer"
             THEN IF finalSolution = NoValue THEN rest
                  ELSE <<[id |-> "msg-synthesizer", agent |-> "synthesizer",
                          preferredPlanId |-> planForRole("synthesizer"),
                          confidence |-> 7000, timestamp |-> timestamp]>> \o rest
             ELSE IF proposal = NoValue THEN rest
                  ELSE <<[id |-> "msg-role", agent |-> role,
                          preferredPlanId |-> planForRole(role),
                          confidence |-> Get(proposal).confidence,
                          timestamp |-> timestamp]>> \o rest

buildTranscriptFromProposals(baseTime, proposals, finalSolution) ==
    TranscriptFrom(1, baseTime, proposals, finalSolution)

buildTimeline(baseTime, adapterName, runVerification) ==
    <<[id |-> "timeline-plans", label |-> "Plans proposed",
       timestamp |-> toTimestamp(baseTime, 0),
       details |-> "Planner proposed four candidate plans."],
      [id |-> "timeline-debate", label |-> "Debate round",
       timestamp |-> toTimestamp(baseTime, 9),
       details |-> "Skeptic, Security, and Cost reviewed the plan set."],
      [id |-> "timeline-verification", label |-> "Verification run",
       timestamp |-> toTimestamp(baseTime, 15),
       details |-> IF runVerification
                   THEN "Verification run executed via adapter."
                   ELSE "Verification skipped for this run; evidence based on debate only."],
      [id |-> "timeline-synthesis", label |-> "Synthesized outcome",
       timestamp |-> toTimestamp(baseTime, 18),
       details |-> "Synthesizer produced final recommendation and patch."]>>

FindPlan(plans, planId) ==
    IF \E i \in DOMAIN plans : plans[i].id = planId
    THEN Some(plans[CHOOSE i \in DOMAIN plans :
                        plans[i].id = planId /\ \A j \in 1..(i - 1) : plans[j].id # planId])
    ELSE NoValue

buildDiff == [summary |-> "Example patch output (fixture).", diff |-> Text("diff", 406)]

\* one entry for the first warning only
firstWarningEntry(baseTime, planId, generationWarnings) ==
    [i \in DOMAIN SubSeq(generationWarnings, 1, 1) |->
        [id |-> <<"evidence-generation-warning", i - 1>>, planId |-> planId,
         agent |-> "synthesizer", type |-> "log",
         summary |-> "Generation warning",
         details |-> generationWarnings[i],
         reliability |-> 3500,
         timestamp |-> toTimestamp(baseTime, 5 + (i - 1))]]

\* generationWarnings.map((warning, index) => ({ ... }))
warningEntriesOf(baseTime, planId, generationWarnings) ==
    [i \in DOMAIN generationWarnings |->
        [id |-> <<"evidence-generation-warning", i - 1>>, planId |-> planId,
         agent |-> "synthesizer", type |-> "log",
         summary |-> "Generation warning",
         details |-> generationWarnings[i],
         reliability |-> 3500,
         timestamp |-> toTimestamp(baseTime, 5 + (i - 1))]]

buildEvidence(baseTime, verification, planId, runVerification, generationWarnings, plans, includePatch) ==
    LET selectedPlan == FindPlan(plans, planId)
        selectedSummary == IF selectedPlan # NoValue THEN Get(selectedPlan).summary
                           ELSE Text("Selected plan summary unavailable.", 34)
        selectedRisk == IF selectedPlan # NoValue /\ Len(Get(selectedPlan).risks) > 0
                        THEN Get(selectedPlan).risks[1]
                        ELSE Text("Primary risk not specified.", 27)
        verificationEntry ==
            IF runVerification
            THEN [id |-> <<"evidence-verification">>, planId |-> planId,
                  agent |-> "synthesizer", type |-> "test",
                  summary |-> verification.summary,
                  details |-> verification.output,
                  reliability |-> ReliabilityOf(verification),
                  timestamp |-> toTimestamp(baseTime, 16)]
            ELSE [id |-> <<"evidence-verification">>, planId |-> planId,
                  agent |-> "synthesizer", type |-> "analysis",
                  summary |-> "Verification skipped.",
                  details |-> Text("Verification was skipped for this run; evidence relies on agent debate.", 71),
                  reliability |-> 5500,
                  timestamp |-> toTimestamp(baseTime, 16)]
        warningEntries == warningEntriesOf(baseTime, planId, generationWarnings)
        entries ==
            <<[id |-> <<"evidence-planner">>, planId |-> planId, agent |-> "planner",
               type |-> "analysis",
               summary |-> "Planner rationale captured for selected plan.",
               details |-> selectedSummary, reliability |-> 6200,
               timestamp |-> toTimestamp(baseTime, 2)],
              [id |-> <<"evidence-security">>, planId |-> planId, agent |-> "security",
               type |-> "analysis",
               summary |-> "Security flagged key risk for selected plan.",
               details |-> selectedRisk, reliability |-> 7000,
               timestamp |-> toTimestamp(baseTime, 7)]>>
            \o warningEntries
            \o <<verificationEntry>>
            \o (IF verification.warning # NoValue
                THEN <<[id |-> <<"evidence-warning">>, planId |-> planId,
                        agent |-> "synthesizer", type |-> "log",
                        summary |-> "Verification warning",
                        details |-> Get(verification.warning), reliability |-> 4000,
                        timestamp |-> toTimestamp(baseTime, 17)]>>
                ELSE <<>>)
    IN  IF includePatch
        THEN Append(entries,
                 [id |-> <<"evidence-patch">>, planId |-> planId, agent |-> "synthesizer",
                  type |-> "patch", summary |-> "Example patch output.",
                  details |-> buildDiff.diff, reliability |-> 8000,
                  timestamp |-> toTimestamp(baseTime, 18)])
        ELSE entries

-----------------------------------------------------------------------------
(* runDebate: belief revision and assembly of the session, after the last   *)
(* external call has returned.  r holds the locals of the run.              *)

\* every role's update applied to the initial priors instead of the
\* distribution the previous role left
RECURSIVE ReviseFromInitial(_, _, _, _)
ReviseFromInitial(index, r, current, probabilities) ==
    IF index > Len(proposalOrder)
    THEN [current |-> current, probabilities |-> probabilities]
    ELSE LET role == proposalOrder[index]
             proposal == FindProposal(r.proposals, role)
         IN  IF proposal = NoValue
             THEN ReviseFromInitial(index + 1, r, current, probabilities)
             ELSE LET offset == 2 + (index - 1) * 2
                      revised == reviseFromAgent(
                                     probabilities[1].entries, role,
                                     <<[planId |-> proposalPlanMap(role),
                                        probability |-> Get(proposal).confidence,
                                        rationale |-> "Agent proposal applied."]>>,
                                     r.baseTime, offset, r.weights[role])
                  IN  ReviseFromInitial(
                          index + 1, r, revised,
                          Append(probabilities,
                                 recordSnapshot(toTimestamp(r.baseTime, offset),
                                                "role proposal applied.", revised)))

\* the forEach over proposalOrder: [current, probabilities] after every role
\* from index on has been applied
RECURSIVE ReviseFromProposals(_, _, _, _)
ReviseFromProposals(index, r, current, probabilities) ==
    IF index > Len(proposalOrder)
    THEN [current |-> current, probabilities |-> probabilities]
    ELSE LET role == proposalOrder[index]
             proposal == FindProposal(r.proposals, role)
         IN  IF proposal = NoValue
             THEN ReviseFromProposals(index + 1, r, current, probabilities)
             ELSE LET planId == proposalPlanMap(role)
                      agentWeight == r.weights[role]
                      offset == 2 + (index - 1) * 2
                      revised == reviseFromAgent(
                                     current, role,
                                     <<[planId |-> planId,
                                        probability |-> Get(proposal).confidence,
                                        rationale |-> IF Len(Get(proposal).rationale) > 0
                                                      THEN Get(proposal).rationale[1]
                                                      ELSE "Agent proposal applied."]>>,
                                     r.baseTime, offset, agentWeight)
                  IN  ReviseFromProposals(
                          index + 1, r, revised,
                          Append(probabilities,
                                 recordSnapshot(toTimestamp(r.baseTime, offset),
                                                "role proposal applied.", revised)))

ProbabilityOf(entries, planId) ==
    IF \E i \in DOMAIN entries : entries[i].planId = planId
    THEN Some(entries[CHOOSE i \in DOMAIN entries :
                          /\ entries[i].planId = planId
                          /\ \A j \in 1..(i - 1) : entries[j].planId # planId].probability)
    ELSE NoValue

\* the probability asserted without the cap
synthesizerUncapped(found) == (IF found # NoValue THEN Get(found) ELSE 5000) + 500

\* Math.min(0.7, (current.find(...)?.probability ?? 0.5) + 0.05)
synthesizerTarget(found) == Min(7000, (IF found # NoValue THEN Get(found) ELSE 5000) + 500)

\* the verification step of the revision, or the synthesizer's adjustment
\* when verification did not run: [verified, probabilities]
VerificationStep(r, current, probabilities) ==
    IF r.runVerification
    THEN LET targetPlanId == pickFinalPlanId(current)
             verified == evaluateVerification(current, r.verification, targetPlanId,
                                              r.baseTime, r.weights.synthesizer)
         IN  [verified |-> verified,
              probabilities |-> Append(probabilities,
                  recordSnapshot(toTimestamp(r.baseTime, 16),
                                 "Verification results applied.", verified))]
    ELSE IF Len(r.proposals) > 0
    THEN LET targetPlanId == pickFinalPlanId(current)
             found == ProbabilityOf(current, targetPlanId)
             skipped == reviseFromAgent(
                            current, "synthesizer",
                            <<[planId |-> targetPlanId,
                               probability |-> synthesizerTarget(found),
                               rationale |-> "Synthesizer tempered confidence without verification."]>>,
                            r.baseTime, 16, r.weights.synthesizer)
         IN  [verified |-> skipped,
              probabilities |-> Append(probabilities,
                  recordSnapshot(toTimestamp(r.baseTime, 16),
                                 "Verification skipped; synthesizer adjusted confidence.",
                                 skipped))]
    ELSE [verified |-> current, probabilities |-> probabilities]

\* the two thresholds taken as strict bounds
varianceAbove(probability) ==
    IF probability > 6600 THEN "low"
    ELSE IF probability > 5000 THEN "medium"
    ELSE "high"

varianceOf(probability) ==
    IF probability >= 6600 THEN "low"
    ELSE IF probability >= 5000 THEN "medium"
    ELSE "high"

\* finalEntry?.probability ?? 0 and its variance: the belief of the session
beliefOf(verified, finalPlanId) ==
    LET finalEntry == ProbabilityOf(verified, finalPlanId)
        probability == IF finalEntry # NoValue THEN Get(finalEntry) ELSE 0
    IN  [probability |-> probability, variance |-> varianceOf(probability)]

WinningAgent(finalPlanId) ==
    IF \E i \in DOMAIN proposalOrder : proposalPlanMap(proposalOrder[i]) = finalPlanId
    THEN Some(proposalOrder[CHOOSE i \in DOMAIN proposalOrder :
                  /\ proposalPlanMap(proposalOrder[i]) = finalPlanId
                  /\ \A j \in 1..(i - 1) : proposalPlanMap(proposalOrder[j]) # finalPlanId])
    ELSE NoValue

\* buildEvidence is called for every run
ledgerAlways(runVerification, codeScenario) == TRUE

\* runVerification && codeScenario: the ledger is built, else it is []
ledgerPopulated(runVerification, codeScenario) == runVerification /\ codeScenario

\* the substitute taken from the first plan
solutionFromFirstPlan(finalSolution, plans) ==
    IF finalSolution = NoValue /\ Len(plans) >= 1
    THEN Some([summary |-> plans[1].summary,
               steps |-> plans[1].steps,
               risks |-> plans[1].risks,
               assumptions |-> <<"Assumptions not explicitly generated; use caution.">>])
    ELSE finalSolution

\* if (!finalSolution && plans[1]) finalSolution = { ...plans[1], assumptions: [...] }
solutionOrSecondPlan(finalSolution, plans) ==
    IF finalSolution = NoValue /\ Len(plans) >= 2
    THEN Some([summary |-> plans[2].summary,
               steps |-> plans[2].steps,
               risks |-> plans[2].risks,
               assumptions |-> <<"Assumptions not explicitly generated; use caution.">>])
    ELSE finalSolution

\* the response kept as generated, empty or not
responseAsGenerated(finalResponse, finalSolution, plans) ==
    IF finalResponse = NoValue
    THEN IF finalSolution # NoValue THEN Get(finalSolution).summary
         ELSE IF Len(plans) >= 2 THEN plans[2].summary
         ELSE Text("No response generated.", 22)
    ELSE Get(finalResponse)

\* if (!finalResponse) finalResponse = finalSolution?.summary ?? plans[1]?.summary ?? "No response generated."
responseOrSummary(finalResponse, finalSolution, plans) ==
    IF finalResponse = NoValue \/ Get(finalResponse).n = 0
    THEN IF finalSolution # NoValue THEN Get(finalSolution).summary
         ELSE IF Len(plans) >= 2 THEN plans[2].summary
         ELSE Text("No response generated.", 22)
    ELSE Get(finalResponse)

\* lines 714-893 of runDebate: the session it returns
AssembleSession(r) ==
    LET finalSolution == solutionOrSecondPlan(r.finalSolution, r.plans)
        finalResponse == responseOrSummary(r.finalResponse, finalSolution, r.plans)
        initial == dampAndNormalize(initialProbabilitiesForPlans(r.baseTime, r.plans))
        first == <<recordSnapshot(toTimestamp(r.baseTime, 1), "Initial priors.", initial)>>
        revised == IF Len(r.proposals) > 0
                   THEN ReviseFromProposals(1, r, initial, first)
                   ELSE [current |-> initial, probabilities |-> first]
        step == VerificationStep(r, revised.current, revised.probabilities)
        verified == step.verified
        adapterName == r.verification.adapterName
        sorted == SortByProbability(verified)
        finalPlanId == IF sorted = <<>> THEN "plan-a" ELSE sorted[1].planId
        evidenceLedger ==
            IF ledgerPopulated(r.runVerification, r.codeScenario)
            THEN buildEvidence(r.baseTime, r.verification, finalPlanId, r.runVerification,
                               r.generationWarnings, r.plans, TRUE)
            ELSE <<>>
    IN  [id |-> r.baseTime,
         scenario |-> r.scenarioText,
         createdAt |-> r.baseTime,
         plans |-> r.plans,
         transcript |-> r.transcript,
         probabilities |-> step.probabilities,
         evidenceLedger |-> evidenceLedger,
         timeline |-> buildTimeline(r.baseTime, adapterName, r.runVerification),
         finalPlanId |-> finalPlanId,
         adapter |-> adapterName,
         weights |-> r.weights,
         runVerification |-> r.runVerification,
         generationWarnings |-> r.generationWarnings,
         proposals |-> r.proposals,
         finalSolution |-> finalSolution,
         promptCategory |-> r.promptCategory,
         winningAgent |-> WinningAgent(finalPlanId),
         codeScenario |-> r.codeScenario,
         daytonaOutput |-> IF r.runVerification /\ r.codeScenario
                           THEN Some(r.verification.output) ELSE NoValue,
         belief |-> beliefOf(verified, finalPlanId),
         action |-> [response |-> finalResponse]]

-----------------------------------------------------------------------------
(* Requests and the collaborators' answers *)

exampleScenario ==
    <<"D","e","b","u","g"," ","t","h","e"," ","f","a","i","l","i","n","g"," ",
      "P","y","t","h","o","n"," ","t","e","s","t"," ","i","n"," ",
      "c","h","e","c","k","o","u","t",".","p","y">>

picnicScenario == <<"P","l","a","n"," ","a"," ","p","i","c","n","i","c">>

rapidScenario == <<"R","A","P","I","D"," ","g","r","o","w","t","h">>

Scenarios == {NoValue, Some(exampleScenario), Some(picnicScenario), Some(rapidScenario)}

RunVerificationOptions == {NoValue, Some(TRUE), Some(FALSE)}

WeightOverrides ==
    {NoValue,
     Some([planner |-> Some(0), skeptic |-> Some(0), security |-> Some(0),
           cost |-> Some(0), synthesizer |-> Some(0)]),
     Some([planner |-> Some(10000), skeptic |-> NoValue, security |-> Some(-5000),
           cost |-> Some(15000), synthesizer |-> Some(10000)])}

ConfidenceValues == {0, 5000, 10000}

\* what generateAgentProposal yields for each role: a confidence, or nothing
\* when it throws
ProposalOutcomes == [Range(proposalOrder) -> {NoValue} \cup {Some(c) : c \in ConfidenceValues}]

AllSucceed(c) == [role \in Range(proposalOrder) |-> Some(c)]
AllFail == [role \in Range(proposalOrder) |-> NoValue]
Only(role, c) == [x \in Range(proposalOrder) |-> IF x = role THEN Some(c) ELSE NoValue]

\* what the verification endpoint does with a tools/call request
McpResult(status, reliability, n) ==
    [kind |-> "result", status |-> status, reliability |-> Some(reliability), n |-> n]
McpFailure(kind, n) ==
    [kind |-> kind, status |-> "none", reliability |-> NoValue, n |-> n]

McpAnswers ==
    {McpResult("pass", 9000, 200), McpResult("fail", 7500, 1500),
     McpResult("error", 2000, 69), McpResult("skipped", 2000, 40),
     McpFailure("rejected", 12), McpFailure("notOk", 1500),
     McpFailure("rpcError", 21), McpFailure("noResult", 33)}

\* an endpoint that accepts the request and never answers it
McpSilent == McpFailure("silent", 0)

World(classify, proposals, mcp, finalSolution, finalResponse) ==
    [classify |-> classify, proposals |-> proposals, mcp |-> mcp,
     finalSolution |-> finalSolution, finalResponse |-> finalResponse]

Body(scenario, weights, runVerification, llmProvider) ==
    [valid |-> TRUE, scenario |-> scenario, weights |-> weights,
     runVerification |-> runVerification, llmProvider |-> llmProvider]

InvalidBody == [Body(NoValue, NoValue, NoValue, NoValue) EXCEPT !.valid = FALSE]

CalmWorld == World("ok", AllSucceed(5000), McpResult("error", 2000, 69), "ok", "ok")

\* belief revision: every subset of proposals and confidences, three weight
\* settings, with verification (a code scenario) and without
BeliefUniverse ==
    {[body |-> Body(NoValue, w, NoValue, NoValue), world |-> World("ok", po, mcp, "ok", "ok")] :
        w \in WeightOverrides, po \in ProposalOutcomes,
        mcp \in {McpResult("pass", 9000, 200), McpResult("fail", 7500, 1500),
                 McpFailure("rejected", 12)}}
    \cup
    {[body |-> Body(Some(picnicScenario), w, NoValue, NoValue),
      world |-> World("ok", po, McpFailure("rejected", 12), "ok", "ok")] :
        w \in WeightOverrides, po \in ProposalOutcomes}

\* what the two final generation calls do: the response is asked for only
\* when the solution was produced
FinalOutcomes == {<<"ok", "ok">>, <<"ok", "throw">>, <<"throw", "ok">>}

\* what the classification call does: a listed label, a label outside the
\* list, or a failed call
ClassifyOutcomes == {"ok", "unlisted", "throw"}

\* the verification decision and the failure paths of every collaborator
DecisionUniverse ==
    {[body |-> Body(sc, NoValue, rv, NoValue), world |-> World(cl, po, mcp, f[1], f[2])] :
        sc \in Scenarios \ {Some(picnicScenario)}, rv \in RunVerificationOptions,
        cl \in ClassifyOutcomes, po \in {AllSucceed(5000), Only("security", 10000)},
        mcp \in McpAnswers, f \in FinalOutcomes}
    \cup
    {[body |-> Body(Some(picnicScenario), NoValue, rv, NoValue),
      world |-> World(cl, po, McpFailure("rejected", 12), f[1], f[2])] :
        rv \in RunVerificationOptions, cl \in {"ok", "throw"},
        po \in {AllSucceed(5000), Only("security", 10000)}, f \in FinalOutcomes}
    \cup
    {[body |-> Body(sc, NoValue, rv, NoValue),
      world |-> World(cl, AllFail, McpFailure("rejected", 12), "ok", "ok")] :
        sc \in Scenarios, rv \in RunVerificationOptions, cl \in {"ok", "throw"}}

\* runs in which every role weighs 1 and proposes with confidence 0 or 1, so
\* that one plan can take the lead by far
LeadUniverse ==
    {[body |-> Body(sc, Some([role \in Roles |-> Some(Unit)]), NoValue, NoValue),
      world |-> World("ok", po, McpResult("pass", 9000, 200), "ok", "ok")] :
        sc \in {NoValue, Some(picnicScenario)},
        po \in [Range(proposalOrder) -> {Some(0), Some(Unit)}]}

ResponseOutcomes == {"blank", "retried", "retriedInVain", "listRetried", "list"}

\* runs in which everything succeeds up to the final response
ResponseUniverse ==
    {[body |-> Body(sc, NoValue, NoValue, NoValue),
      world |-> World("ok", AllSucceed(5000), McpResult("pass", 9000, 200), "ok", f)] :
        sc \in {NoValue, Some(picnicScenario)}, f \in ResponseOutcomes}

ProviderUniverse ==
    {[body |-> Body(NoValue, NoValue, NoValue, p), world |-> CalmWorld] :
        p \in {NoValue, Some("groq"), Some("ollama")}}
    \cup {[body |-> InvalidBody, world |-> CalmWorld]}

\* the requests played against a server: the belief universe needs a
\* verification endpoint, the other two are played in every environment
Universe(env) ==
    IF env.MCP_URL
    THEN BeliefUniverse \cup LeadUniverse \cup DecisionUniverse \cup ResponseUniverse
             \cup ProviderUniverse
    ELSE LeadUniverse \cup DecisionUniverse \cup ResponseUniverse \cup ProviderUniverse

\* a server whose collaborators always answer alike, so that two completed
\* runs differ only in when they ran
StoreUniverse ==
    {[body |-> Body(NoValue, NoValue, NoValue, NoValue), world |-> CalmWorld],
     [body |-> Body(NoValue, NoValue, NoValue, NoValue),
      world |-> World("ok", AllFail, McpFailure("rejected", 12), "ok", "ok")],
     [body |-> Body(NoValue, NoValue, NoValue, Some("ollama")), world |-> CalmWorld],
     [body |-> InvalidBody, world |-> CalmWorld]}

\* runs against every kind of verification endpoint, the silent one included
TimeoutUniverse ==
    {[body |-> Body(sc, NoValue, rv, NoValue), world |-> World("ok", po, mcp, "ok", "ok")] :
        sc \in {NoValue, Some(picnicScenario)}, rv \in {NoValue, Some(FALSE)},
        po \in {AllSucceed(5000), Only("security", 10000), AllFail},
        mcp \in McpAnswers \cup {McpSilent}}

Environments ==
    {[LLM_PROVIDER |-> NoValue, GROQ_API_KEY |-> TRUE, OLLAMA_MODEL |-> FALSE,
      MCP_URL |-> TRUE, VERIFICATION_MODE |-> NoValue],
     [LLM_PROVIDER |-> Some("ollama"), GROQ_API_KEY |-> FALSE, OLLAMA_MODEL |-> TRUE,
      MCP_URL |-> FALSE, VERIFICATION_MODE |-> Some("mock")]}

-----------------------------------------------------------------------------
(* The request slots *)

Slots == {1}

IdleHandler ==
    [pc |-> "idle",
     body |-> InvalidBody,
     world |-> CalmWorld,
     priorProvider |-> NoValue,
     response |-> NoValue,
     sessions |-> <<>>,
     session |-> NoValue,
     baseTime |-> 0,
     weights |-> defaultWeights,
     scenarioText |-> <<>>,
     runVerificationRequested |-> TRUE,
     codeScenario |-> FALSE,
     runVerification |-> FALSE,
     plans |-> basePlans,
     generationWarnings |-> <<>>,
     promptCategory |-> NoValue,
     verification |-> skippedVerification,
     proposals |-> <<>>,
     transcript |-> <<>>,
     agentIndex |-> 0,
     finalSolution |-> NoValue,
     finalResponse |-> NoValue,
     responseCalls |-> 0,
     mcpCall |-> NoValue,
     mcpTimer |-> "off",
     fallbackPlan |-> NoValue]

Init ==
    /\ processEnv \in Environments
    /\ clock = 0
    /\ sessionsFile = <<>>
    /\ handler = [h \in Slots |-> IdleHandler]
    /\ completed = <<>>
    /\ failedRuns = 0

InitStore ==
    /\ processEnv = [LLM_PROVIDER |-> NoValue, GROQ_API_KEY |-> TRUE,
                     OLLAMA_MODEL |-> FALSE, MCP_URL |-> TRUE,
                     VERIFICATION_MODE |-> NoValue]
    /\ clock = 0
    /\ sessionsFile = <<>>
    /\ handler = [h \in Slots |-> IdleHandler]
    /\ completed = <<>>
    /\ failedRuns = 0

\* sendError(res, 400, message), after the finally block of handleRun
ErrorResponse(message) == [status |-> 400, session |-> NoValue, error |-> Some(message)]

\* sendJson(res, 200, { session })
SessionResponse(session) == [status |-> 200, session |-> Some(session), error |-> NoValue]

\* the finally block of handleRun
RestoreProvider(env, body, priorProvider) ==
    IF body.llmProvider # NoValue
    THEN [env EXCEPT !.LLM_PROVIDER = priorProvider]
    ELSE env

\* runDebate throws: handleRun's catch answers 400, its finally restores the provider
Fail(h, r, message) ==
    /\ handler' = [handler EXCEPT ![h] =
                      [r EXCEPT !.pc = "responded", !.response = Some(ErrorResponse(message))]]
    /\ processEnv' = RestoreProvider(processEnv, r.body, r.priorProvider)
    /\ failedRuns' = failedRuns + 1
    /\ UNCHANGED <<clock, sessionsFile, completed>>

Continue(h, r) ==
    /\ handler' = [handler EXCEPT ![h] = r]
    /\ UNCHANGED <<processEnv, clock, sessionsFile, completed, failedRuns>>

\* an error message produced outside the engine
ErrorMessage(n) == Text("error message", n)

-----------------------------------------------------------------------------
(* runDebate, one action per external call it awaits *)

\* the caller's request decides for a code scenario
RequestedOnly(codeScenario, runVerificationRequested) ==
    codeScenario /\ runVerificationRequested

\* the caller's request is honoured whatever the scenario
RequestedWins(codeScenario, runVerificationRequested) ==
    runVerificationRequested \/ codeScenario

\* the warning pushed only when verification was asked for
WarnWhenRequested(codeScenario, runVerificationRequested) ==
    IF codeScenario /\ runVerificationRequested
    THEN <<Text("Verification was auto-enabled for code-related scenarios.", 57)>>
    ELSE <<>>

\* the run goes on without any proposal
NeverFatal(proposals) == FALSE

\* codeScenario ? (runVerificationRequested || codeScenario) : false
decideRunVerification(codeScenario, runVerificationRequested) ==
    IF codeScenario THEN (runVerificationRequested \/ codeScenario) ELSE FALSE

\* the warning pushed when a code scenario overrides runVerification = false
autoEnableWarnings(codeScenario, runVerificationRequested) ==
    IF codeScenario /\ ~runVerificationRequested
    THEN <<Text("Verification was auto-enabled for code-related scenarios.", 57)>>
    ELSE <<>>

\* if (proposals.length === 0) throw
proposalsFatal(proposals) == Len(proposals) = 0

\* runDebate from its first line to its first await, in the environment env
\* at the instant now: the locals it has set
runDebateStart(r, env, now) ==
    LET scenarioText == IF r.body.scenario # NoValue THEN Get(r.body.scenario)
                        ELSE defaultScenario
        runVerificationRequested == IF r.body.runVerification # NoValue
                                    THEN Get(r.body.runVerification) ELSE TRUE
        codeScenario == isCodeScenario(scenarioText)
        runVerification == decideRunVerification(codeScenario, runVerificationRequested)
    IN  [r EXCEPT !.baseTime = now,
                  !.weights = resolveWeights(r.body.weights),
                  !.scenarioText = scenarioText,
                  !.runVerificationRequested = runVerificationRequested,
                  !.codeScenario = codeScenario,
                  !.runVerification = runVerification,
                  !.plans = basePlans,
                  !.generationWarnings = <<>>,
                  !.pc = "classifyPrompt"]

\* [planId, confidence] of every proposal, sorted by (a, b) => b.confidence - a.confidence
RECURSIVE InsertByConfidence(_, _)
InsertByConfidence(sorted, item) ==
    IF sorted = <<>> THEN <<item>>
    ELSE IF sorted[1].confidence - item.confidence < 0
         THEN <<item>> \o sorted
         ELSE <<sorted[1]>> \o InsertByConfidence(Tail(sorted), item)

RECURSIVE SortByConfidence(_)
SortByConfidence(items) ==
    IF items = <<>> THEN <<>>
    ELSE InsertByConfidence(SortByConfidence(SubSeq(items, 1, Len(items) - 1)),
                            items[Len(items)])

rankedProposals(proposals) ==
    SortByConfidence([i \in DOMAIN proposals |->
                         [planId |-> proposalPlanMap(proposals[i].agent),
                          confidence |-> proposals[i].confidence]])

\* process.env.VERIFICATION_MODE decides, else a code scenario verifies for real
verificationModeOf(env, codeScenario) ==
    LET verificationMode == IF env.VERIFICATION_MODE # NoValue
                            THEN Get(env.VERIFICATION_MODE) ELSE "auto"
    IN  IF verificationMode = "real" THEN "real"
        ELSE IF verificationMode = "mock" THEN "mock"
        ELSE IF codeScenario THEN "real" ELSE "mock"

\* a verification step without its catch block: the error ends the run
Rethrow(r, message) ==
    [r EXCEPT !.pc = "responded", !.response = Some(ErrorResponse(message))]

\* the catch block of the verification step: a warning, then the mock on plans[1]
verificationCatch(r, message) ==
    [r EXCEPT !.generationWarnings =
                  Append(@, Concat(Text("MCP verification failed; fell back to mock. ", 44),
                                   message)),
              !.fallbackPlan = Some(r.plans[2]),
              !.pc = "mockRunVerification"]

\* the try block of the verification step up to the await of callMcpTool
startVerification(r, env) ==
    LET ranked == rankedProposals(r.proposals)
        targetPlanId == IF ranked # <<>> THEN ranked[1].planId ELSE r.plans[1].id
        found == FindPlan(r.plans, targetPlanId)
        targetPlan == IF found # NoValue THEN Get(found) ELSE r.plans[1]
        mode == verificationModeOf(env, r.codeScenario)
    IN  IF ~env.MCP_URL
        THEN verificationCatch(r, Text("MCP_URL is not configured.", 26))
        ELSE [r EXCEPT !.mcpCall = Some([planId |-> targetPlanId, mode |-> mode]),
                       !.mcpTimer = "armed",
                       !.fallbackPlan = Some(targetPlan),
                       !.pc = "callMcpTool"]

\* after the proposal loop: the transcript, the fatal check, the plans, and
\* on to verification or to the final solution
afterProposals(r, env) ==
    LET withPlans == [r EXCEPT !.transcript =
                                   buildTranscriptFromProposals(r.baseTime, r.proposals,
                                                                r.finalSolution),
                               !.plans = plansFromProposals(r.proposals)]
    IN  IF r.runVerification THEN startVerification(withPlans, env)
        ELSE [withPlans EXCEPT !.pc = "generateFinalSolution"]

\* the next agent the proposal loop calls, 0 when the loop is over
nextProposalIndex(index) ==
    IF \E j \in (index + 1)..Len(agents) : agents[j] # "synthesizer"
    THEN CHOOSE j \in (index + 1)..Len(agents) :
             /\ agents[j] # "synthesizer"
             /\ \A k \in (index + 1)..(j - 1) : agents[k] = "synthesizer"
    ELSE 0

\* `[${agent.role}] Proposal generation failed. `
proposalFailed(role) ==
    CASE role = "planner" -> Text("[planner] Proposal generation failed. ", 38)
      [] role = "skeptic" -> Text("[skeptic] Proposal generation failed. ", 38)
      [] role = "security" -> Text("[security] Proposal generation failed. ", 39)
      [] OTHER -> Text("[cost] Proposal generation failed. ", 35)

\* draft.proposal: the text each role proposes
proposalText(role) ==
    CASE role = "planner" -> Text("proposal of the planner", 240)
      [] role = "skeptic" -> Text("proposal of the skeptic", 230)
      [] role = "security" -> Text("proposal of the security role", 220)
      [] OTHER -> Text("proposal of the cost role", 210)

ProposalDraft(role, confidence, weights) ==
    [agent |-> role,
     proposal |-> proposalText(role),
     summary |-> Text("summary", 80),
     risk |-> Text("risk", 60),
     riskSeverity |-> 3,
     rationale |-> [i \in 1..reasonsTarget(weights[role]) |-> "rationale"],
     confidence |-> clampUnit(confidence)]

\* POST /api/debate/run: handleRun from the arrival of the body to the first
\* await inside runDebate (the classification call), or to the error response
HandleRun(h, requests, again) ==
    /\ handler[h].pc = "idle" \/ (again /\ handler[h].pc = "responded")
    /\ \E request \in requests :
        LET fresh == [IdleHandler EXCEPT !.body = request.body, !.world = request.world,
                                         !.priorProvider = processEnv.LLM_PROVIDER]
            env == IF request.body.llmProvider # NoValue
                   THEN [processEnv EXCEPT !.LLM_PROVIDER = request.body.llmProvider]
                   ELSE processEnv
            r == runDebateStart(fresh, env, clock + 1)
        IN  IF ~request.body.valid
            THEN /\ handler' = [handler EXCEPT ![h] =
                        [fresh EXCEPT !.pc = "responded",
                                      !.response = Some(ErrorResponse("Invalid JSON payload."))]]
                 /\ failedRuns' = failedRuns + 1
                 /\ UNCHANGED <<processEnv, clock, sessionsFile, completed>>
            ELSE IF ~getLlmConfig(env, NoValue).enabled
            THEN /\ handler' = [handler EXCEPT ![h] =
                        [r EXCEPT !.pc = "responded",
                                  !.response = Some(ErrorResponse(NotConfiguredMessage))]]
                 /\ processEnv' = RestoreProvider(env, r.body, r.priorProvider)
                 /\ clock' = clock + 1
                 /\ failedRuns' = failedRuns + 1
                 /\ UNCHANGED <<sessionsFile, completed>>
            ELSE /\ handler' = [handler EXCEPT ![h] = r]
                 /\ processEnv' = env
                 /\ clock' = clock + 1
                 /\ UNCHANGED <<sessionsFile, completed, failedRuns>>

categories ==
    {"information-seeking", "reasoning-analysis", "instruction-following",
     "creative-generation", "transformation", "decision-support",
     "exploratory-ideation", "critique-adversarial", "meta-prompt",
     "simulation-roleplay", "tool-using-agentic", "alignment-constraint",
     "learning-tutoring", "reflective-sensemaking"}

\* the label the model answers with, nothing when the call itself fails
classifyAnswer(answer) ==
    CASE answer = "ok" -> Some("decision-support")
      [] answer = "unlisted" -> Some("poetry")
      [] OTHER -> NoValue

\* classifyPrompt: the category, or nothing when it throws (the call failed,
\* or the label is not one of the categories)
classifyPrompt(answer) ==
    LET label == classifyAnswer(answer)
    IN  IF label = NoValue THEN NoValue
        ELSE IF Get(label) \notin categories THEN NoValue
        ELSE label

\* the default category taken without a word in the warning list
classifyCatchSilently(r, message) ==
    [r EXCEPT !.promptCategory = Some("reasoning-analysis")]

\* the catch block around classifyPrompt
classifyCatch(r, message) ==
    [r EXCEPT !.generationWarnings =
                  Append(@, Concat(Text("Prompt classification failed; defaulting to reasoning-analysis. ", 64),
                                   message)),
              !.promptCategory = Some("reasoning-analysis")]

\* classifyPrompt settles; the auto-enable warning; the proposal loop starts
ClassifyPromptReturns(h) ==
    LET r == handler[h]
        category == classifyPrompt(r.world.classify)
        classified ==
            IF category # NoValue
            THEN [r EXCEPT !.promptCategory = category]
            ELSE classifyCatch(r, ErrorMessage(40))
        warned ==
            [classified EXCEPT !.generationWarnings =
                @ \o autoEnableWarnings(r.codeScenario, r.runVerificationRequested)]
    IN  /\ r.pc = "classifyPrompt"
        /\ Continue(h, [warned EXCEPT !.verification = skippedVerification,
                                      !.proposals = <<>>,
                                      !.agentIndex = nextProposalIndex(0),
                                      !.pc = "generateAgentProposal"])

\* the body of the proposal loop once generateAgentProposal has settled for
\* the agent the loop is at, and what follows the loop after the last agent
ProposalSettles(h, r, outcome) ==
    LET role == agents[r.agentIndex]
        collected ==
            IF outcome # NoValue
            THEN [r EXCEPT !.proposals = Append(@, ProposalDraft(role, Get(outcome), r.weights))]
            ELSE [r EXCEPT !.generationWarnings =
                               Append(@, Concat(proposalFailed(role), ErrorMessage(40)))]
        next == nextProposalIndex(r.agentIndex)
    IN  IF next # 0
        THEN Continue(h, [collected EXCEPT !.agentIndex = next])
        ELSE IF proposalsFatal(collected.proposals)
        THEN Fail(h, collected, "LLM proposal generation failed for all agents.")
        ELSE Continue(h, afterProposals(collected, processEnv))

\* generateAgentProposal settles for the agent the loop is at
GenerateAgentProposalReturns(h) ==
    /\ handler[h].pc = "generateAgentProposal"
    /\ ProposalSettles(h, handler[h], handler[h].world.proposals[agents[handler[h].agentIndex]])

\* the timer of withTimeout fires while the fetch is pending: it aborts a
\* controller whose signal nothing listens to, so the pending call is untouched
McpTimeoutFires(h) ==
    LET r == handler[h]
    IN  /\ r.pc = "callMcpTool"
        /\ r.mcpTimer = "armed"
        /\ Continue(h, [r EXCEPT !.mcpTimer = "fired"])

\* callMcpTool settles: a result, or a thrown error; the finally block of
\* withTimeout clears the timer
CallMcpToolReturns(h) ==
    LET r == [handler[h] EXCEPT !.mcpTimer = "off"]
        answer == r.world.mcp
        verification ==
            [passed |-> answer.status = "pass",
             output |-> Text("mcp logs", answer.n),
             summary |-> "mcp summary",
             reliability |-> answer.reliability,
             adapterName |-> "mcp",
             warning |-> IF answer.status = "error"
                         THEN Some(Text("MCP verification error; falling back to mock.", 45))
                         ELSE NoValue]
    IN  /\ r.pc = "callMcpTool"
        /\ answer.kind # "silent"
        /\ IF answer.kind # "result"
           THEN Continue(h, verificationCatch(r, ErrorMessage(answer.n)))
           ELSE IF answer.status = "error"
           THEN Continue(h, [r EXCEPT !.verification = verification,
                                      !.pc = "mockRunVerification"])
           ELSE Continue(h, [r EXCEPT !.verification = verification,
                                      !.pc = "generateFinalSolution"])

\* mockAdapter.runVerification settles, on either fallback path
MockRunVerificationReturns(h) ==
    LET r == handler[h]
        fallback == selectOutput(Get(r.fallbackPlan))
    IN  /\ r.pc = "mockRunVerification"
        /\ Continue(h, [r EXCEPT !.verification =
                                     [fallback EXCEPT
                                         !.warning = Some(Text("MCP verification failed; fell back to mock.", 43)),
                                         !.adapterName = "mock"],
                                 !.pc = "generateFinalSolution"])

\* the rest of runDebate once no external call is left, and handleRun up to
\* its await of readSessions
finishRun(r) ==
    [r EXCEPT !.session = Some(AssembleSession(r)), !.pc = "readSessions"]

\* generateFinalSolution settles
GenerateFinalSolutionReturns(h) ==
    LET r == handler[h]
        solved ==
            IF r.world.finalSolution = "ok"
            THEN [r EXCEPT !.finalSolution =
                     Some([summary |-> Text("final solution summary", 120),
                           steps |-> <<"step", "step">>,
                           risks |-> <<Text("final solution risk", 60)>>,
                           assumptions |-> <<"assumption">>])]
            ELSE [r EXCEPT !.generationWarnings =
                     Append(@, Concat(Text("Final solution generation failed. ", 34),
                                      ErrorMessage(40)))]
    IN  /\ r.pc = "generateFinalSolution"
        /\ IF solved.finalSolution # NoValue
           THEN Continue(h, [solved EXCEPT !.pc = "generateFinalResponse"])
           ELSE Continue(h, finishRun(solved))

\* what the endpoint answers to the first and to the second request of
\* generateFinalResponse: the request is rejected, the content is no JSON
\* with a response field, the response is a list, the response is blank, or
\* the response is a paragraph
responseScript(outcome) ==
    CASE outcome = "ok" -> <<"valid">>
      [] outcome = "throw" -> <<"rejected">>
      [] outcome = "blank" -> <<"blank">>
      [] outcome = "retried" -> <<"malformed", "valid">>
      [] outcome = "retriedInVain" -> <<"malformed", "malformed">>
      [] outcome = "listRetried" -> <<"listLike", "valid">>
      [] OTHER -> <<"listLike", "listLike">>

\* `continue` in the attempt loop of generateFinalResponse: a list-like
\* response of a scenario that is not code-related, or a caught error
responseRetries(kind, attempt, codeScenario) ==
    /\ attempt < 2
    /\ kind = "malformed" \/ (kind = "listLike" /\ ~codeScenario)

\* postChat settles for an attempt of generateFinalResponse: the loop goes
\* round again, or generateFinalResponse settles and runDebate finishes
GenerateFinalResponseReturns(h) ==
    LET r == handler[h]
        attempt == r.responseCalls + 1
        kind == responseScript(r.world.finalResponse)[attempt]
        called == [r EXCEPT !.responseCalls = attempt]
        answered ==
            CASE kind \in {"valid", "listLike"} ->
                    [called EXCEPT !.finalResponse = Some(Text("final response", 300))]
              [] kind = "blank" ->
                    [called EXCEPT !.finalResponse = Some(Text("", 0))]
              [] OTHER ->
                    [called EXCEPT !.generationWarnings =
                        Append(@, Concat(Text("Final response generation failed. ", 34),
                                         ErrorMessage(40)))]
    IN  /\ r.pc = "generateFinalResponse"
        /\ IF responseRetries(kind, attempt, r.codeScenario)
           THEN Continue(h, called)
           ELSE Continue(h, finishRun(answered))

-----------------------------------------------------------------------------
(* handleRun after runDebate: the persisted session list *)

MaxSessions == 25

trimSession(session) ==
    [session EXCEPT
        !.generationWarnings =
            [i \in DOMAIN session.generationWarnings |->
                truncate(session.generationWarnings[i], TruncateMax)],
        !.evidenceLedger =
            [i \in DOMAIN session.evidenceLedger |->
                [session.evidenceLedger[i] EXCEPT !.details = truncate(@, TruncateMax)]]]

\* sessions.slice(-25): the oldest sessions first in line to stay
sliceTail(sessions, count) ==
    SubSeq(sessions, Max(1, Len(sessions) - count + 1), Len(sessions))

\* sessions.slice(0, 25)
slice(sessions, count) == SubSeq(sessions, 1, Min(count, Len(sessions)))

\* readSessions settles; the new session is put in front of the list read
ReadSessionsReturns(h) ==
    LET r == handler[h]
    IN  /\ r.pc = "readSessions"
        /\ Continue(h, [r EXCEPT !.sessions = <<trimSession(Get(r.session))>> \o sessionsFile,
                                 !.pc = "writeSessions"])

\* writeSessions settles; the response is sent and the provider restored
WriteSessionsReturns(h) ==
    LET r == handler[h]
    IN  /\ r.pc = "writeSessions"
        /\ sessionsFile' = slice(r.sessions, MaxSessions)
        /\ handler' = [handler EXCEPT ![h] =
                          [r EXCEPT !.response = Some(SessionResponse(Get(r.session))),
                                    !.pc = "responded"]]
        /\ processEnv' = RestoreProvider(processEnv, r.body, r.priorProvider)
        /\ completed' = Append(completed, Get(r.session))
        /\ UNCHANGED <<clock, failedRuns>>

-----------------------------------------------------------------------------
(* Specifications *)

\* a request that is answered with an error in the environment env
WillFail(request, env) ==
    \/ ~request.body.valid
    \/ ~getLlmConfig(IF request.body.llmProvider # NoValue
                     THEN [env EXCEPT !.LLM_PROVIDER = request.body.llmProvider]
                     ELSE env, NoValue).enabled
    \/ \A role \in Range(proposalOrder) : request.world.proposals[role] = NoValue

\* the requests the store specification still admits
StoreRequests ==
    IF clock >= MaxStoreRuns THEN {}
    ELSE {request \in StoreUniverse :
              failedRuns < MaxFailedRuns \/ ~WillFail(request, processEnv)}

Step(h) ==
    \/ ClassifyPromptReturns(h)
    \/ GenerateAgentProposalReturns(h)
    \/ McpTimeoutFires(h)
    \/ CallMcpToolReturns(h)
    \/ MockRunVerificationReturns(h)
    \/ GenerateFinalSolutionReturns(h)
    \/ GenerateFinalResponseReturns(h)
    \/ ReadSessionsReturns(h)
    \/ WriteSessionsReturns(h)

\* one request served by a freshly started server
Next == \E h \in Slots : HandleRun(h, Universe(processEnv), FALSE) \/ Step(h)

Spec == Init /\ [][Next]_vars

\* requests served one after the other
NextStore == \E h \in Slots : HandleRun(h, StoreRequests, TRUE) \/ Step(h)

SpecStore == InitStore /\ [][NextStore]_vars

\* the engine's functions on their own: a call with its arguments, then its result
WeightValues == {NoValue, Some(-5000), Some(0), Some(3000), Some(10000), Some(15000)}

WeightArguments ==
    {NoValue} \cup
    {Some([planner |-> a, skeptic |-> b, security |-> c, cost |-> d, synthesizer |-> e]) :
        a \in WeightValues, b \in {NoValue, Some(-1), Some(10001)}, c \in WeightValues,
        d \in {NoValue, Some(4000)}, e \in WeightValues}

ProbabilityValues == {0, 1, 2500, 3333, 6667, 10000}

EntryOf(planId, probability) ==
    [planId |-> planId, probability |-> probability, updatedBy |-> "planner",
     rationale |-> "Initial prior assigned by Planner.", timestamp |-> 0]

EntryArguments ==
    UNION {{[i \in 1..n |-> EntryOf(planIds[i], f[i])] : f \in [1..n -> ProbabilityValues]} :
               n \in 1..4}

UpdateArguments ==
    {[previous |-> [i \in 1..4 |-> EntryOf(planIds[i], IF i = k THEN prior ELSE 2500)],
      update |-> [planId |-> planIds[k], probability |-> asserted,
                  updatedBy |-> "skeptic", rationale |-> "rationale"],
      weight |-> weight] :
        k \in 1..4, prior \in ProbabilityValues, asserted \in ProbabilityValues,
        weight \in {0, 3500, 10000}}

WinningValues == {4000, 4999, 5000, 5001, 6599, 6600, 6601, 9400}

\* final distributions: the plan at position k holds p, the others share the rest
FinalArguments ==
    {[i \in 1..4 |-> EntryOf(planIds[i], IF i = k THEN p ELSE (Unit - p) \div 3)] :
        k \in 1..4, p \in WinningValues}

\* the update of one role of the forEach over proposalOrder, on its own
RoleUpdate(index, confidence, weight) ==
    [index |-> index, confidence |-> confidence, weight |-> weight]

\* two role updates, the first of a role that comes earlier in proposalOrder
OrderArguments ==
    {[first |-> RoleUpdate(i, c, v), second |-> RoleUpdate(j, d, w)] :
        i \in 1..3, j \in 2..4, c \in {0, 2500, 10000}, d \in {0, 2500, 10000},
        v \in {0, 3500, 10000}, w \in {0, 3500, 10000}}

\* the body of the forEach for one role
reviseRole(current, update) ==
    reviseFromAgent(current, proposalOrder[update.index],
                    <<[planId |-> proposalPlanMap(proposalOrder[update.index]),
                       probability |-> update.confidence,
                       rationale |-> "Agent proposal applied."]>>,
                    0, 2 + (update.index - 1) * 2, update.weight)

Calls ==
    {[pc |-> "called", function |-> "reviseFromAgent", arguments |-> a, result |-> NoValue] :
        a \in {o \in OrderArguments : o.first.index < o.second.index}}
    \cup
    {[pc |-> "called", function |-> "belief", arguments |-> a, result |-> NoValue] :
        a \in FinalArguments}
    \cup
    {[pc |-> "called", function |-> "resolveWeights", arguments |-> a, result |-> NoValue] :
        a \in WeightArguments}
    \cup
    {[pc |-> "called", function |-> "normalizeEntries", arguments |-> a, result |-> NoValue] :
        a \in EntryArguments}
    \cup
    {[pc |-> "called", function |-> "applyWeightedUpdate", arguments |-> a, result |-> NoValue] :
        a \in UpdateArguments}

InitFunctions ==
    /\ processEnv \in Environments
    /\ clock = 0
    /\ sessionsFile = <<>>
    /\ handler \in [Slots -> Calls]
    /\ completed = <<>>
    /\ failedRuns = 0

Return(h, result) ==
    /\ handler[h].pc = "called"
    /\ Continue(h, [handler[h] EXCEPT !.pc = "returned", !.result = Some(result)])

ResolveWeightsReturns(h) ==
    /\ handler[h].function = "resolveWeights"
    /\ Return(h, resolveWeights(handler[h].arguments))

NormalizeEntriesReturns(h) ==
    /\ handler[h].function = "normalizeEntries"
    /\ Return(h, normalizeEntries(handler[h].arguments))

ApplyWeightedUpdateReturns(h) ==
    /\ handler[h].function = "applyWeightedUpdate"
    /\ Return(h, applyWeightedUpdate(handler[h].arguments.previous, handler[h].arguments.update,
                                     toTimestamp(clock, 2), handler[h].arguments.weight))

\* lines 819-839 of runDebate on a final distribution
BeliefReturns(h) ==
    /\ handler[h].function = "belief"
    /\ Return(h, [finalPlanId |-> pickFinalPlanId(handler[h].arguments),
                  belief |-> beliefOf(handler[h].arguments,
                                      pickFinalPlanId(handler[h].arguments))])

\* the two role updates from the initial priors, in the order of
\* proposalOrder and in the other order
ReviseFromAgentReturns(h) ==
    LET initial == dampAndNormalize(initialProbabilitiesForPlans(0, basePlans))
        first == handler[h].arguments.first
        second == handler[h].arguments.second
    IN  /\ handler[h].function = "reviseFromAgent"
        /\ Return(h, [inOrder |-> reviseRole(reviseRole(initial, first), second),
                      swapped |-> reviseRole(reviseRole(initial, second), first)])

NextFunctions ==
    \E h \in Slots :
        \/ ReviseFromAgentReturns(h)
        \/ BeliefReturns(h)
        \/ ResolveWeightsReturns(h)
        \/ NormalizeEntriesReturns(h)
        \/ ApplyWeightedUpdateReturns(h)

SpecFunctions == InitFunctions /\ [][NextFunctions]_vars

\* the proposal loop with the attempts of generateAgentProposal: what the
\* text-generation endpoint does with a chat request
ChatAnswer(kind) == [kind |-> kind, confidence |-> 5000]

\* the answers to the first and to the second request of one role: the fetch
\* is rejected, the answer has no content, the content is no JSON, the JSON
\* is no valid proposal, or the proposal is valid
ChatScripts ==
    {<<ChatAnswer(first), ChatAnswer("valid")>> : first \in {"valid", "rejected", "empty"}}
    \cup
    {<<ChatAnswer(first), ChatAnswer(second)>> :
        first \in {"malformed", "invalid"}, second \in {"valid", "malformed", "rejected"}}

\* every failure of an attempt taken as a reason to try again
retriesAnyFailure(answer, attempt) == answer.kind # "valid" /\ attempt < 2

\* `if (attempt < 2) continue` in the two catch blocks of the attempt loop:
\* postChat's own errors are not caught there
retries(answer, attempt) == answer.kind \in {"malformed", "invalid"} /\ attempt < 2

\* the run at the start of its proposal loop, with the answers the endpoint
\* will give to each role
ProposalLoop(chat) ==
    LET fresh == [IdleHandler EXCEPT !.body = Body(NoValue, NoValue, NoValue, NoValue)]
        r == runDebateStart(fresh, CHOOSE env \in Environments : env.MCP_URL, 1)
    IN  [r EXCEPT !.promptCategory = Some("decision-support"),
                  !.agentIndex = nextProposalIndex(0),
                  !.pc = "generateAgentProposal"]
        @@ [attempt |-> 1, calls |-> [role \in Range(proposalOrder) |-> 0], chat |-> chat]

InitProposals ==
    /\ processEnv = CHOOSE env \in Environments : env.MCP_URL
    /\ clock = 1
    /\ sessionsFile = <<>>
    /\ handler \in [Slots -> {ProposalLoop(chat) : chat \in [Range(proposalOrder) -> ChatScripts]}]
    /\ completed = <<>>
    /\ failedRuns = 0

\* postChat settles with an answer that sends the attempt loop round again
PostChatRetried(h) ==
    LET r == handler[h]
        role == agents[r.agentIndex]
    IN  /\ r.pc = "generateAgentProposal"
        /\ retries(r.chat[role][r.attempt], r.attempt)
        /\ Continue(h, [r EXCEPT !.attempt = @ + 1, !.calls[role] = @ + 1])

\* postChat settles with an answer that ends generateAgentProposal: the
\* proposal is returned, or the error is thrown to the loop of runDebate
PostChatSettled(h) ==
    LET r == handler[h]
        role == agents[r.agentIndex]
        answer == r.chat[role][r.attempt]
        outcome == IF answer.kind = "valid" THEN Some(answer.confidence) ELSE NoValue
    IN  /\ r.pc = "generateAgentProposal"
        /\ ~retries(answer, r.attempt)
        /\ ProposalSettles(h, [r EXCEPT !.attempt = 1, !.calls[role] = @ + 1], outcome)

NextProposals == \E h \in Slots : PostChatRetried(h) \/ PostChatSettled(h)

SpecProposals == InitProposals /\ [][NextProposals]_vars

\* one request, served by an event loop that runs every callback that is ready
NextTimeout == \E h \in Slots : HandleRun(h, TimeoutUniverse, FALSE) \/ Step(h)

SpecTimeout == Init /\ [][NextTimeout]_vars /\ \A h \in Slots : WF_vars(Step(h))

\* two requests in flight at once: the server starts a handleRun per request,
\* and the handlers take turns at their awaits
OverlapSlots == {1, 2}

\* a server on which both providers are configured, so that no request is
\* turned away for its provider
OverlapEnvironment ==
    [LLM_PROVIDER |-> NoValue, GROQ_API_KEY |-> TRUE, OLLAMA_MODEL |-> TRUE,
     MCP_URL |-> TRUE, VERIFICATION_MODE |-> NoValue]

\* requests with and without a provider of their own, whose runs complete or
\* fail for want of proposals
OverlapUniverse ==
    {[body |-> Body(NoValue, NoValue, NoValue, p), world |-> w] :
        p \in {NoValue, Some("groq"), Some("ollama")},
        w \in {CalmWorld, World("ok", AllFail, McpFailure("rejected", 12), "ok", "ok")}}

InitOverlap ==
    /\ processEnv = OverlapEnvironment
    /\ clock = 0
    /\ sessionsFile = <<>>
    /\ handler = [h \in OverlapSlots |-> IdleHandler]
    /\ completed = <<>>
    /\ failedRuns = 0

NextOverlap == \E h \in OverlapSlots : HandleRun(h, OverlapUniverse, FALSE) \/ Step(h)

SpecOverlap == InitOverlap /\ [][NextOverlap]_vars

-----------------------------------------------------------------------------
(* Properties of the session runDebate returns *)

\* the slots whose run has returned a session
Returned == {h \in Slots : handler[h].session # NoValue}

SessionOf(h) == Get(handler[h].session)

\* rounding to the nearest unit moves each of the entries by at most half a
\* unit in the normalisation and again in the damping
SumTolerance == Len(planIds)

Distance(a, b) == IF a >= b THEN a - b ELSE b - a

SnapshotCoversPlans(snapshot) ==
    /\ Len(snapshot.entries) = Len(planIds)
    /\ {snapshot.entries[i].planId : i \in DOMAIN snapshot.entries} = Range(planIds)
    /\ Distance(SumProbability(snapshot.entries), Unit) <= SumTolerance

\* C1: in every session returned by runDebate, every recorded snapshot has
\* exactly one entry per plan (the ids plan-a..plan-d, none twice) and its
\* probabilities sum to 1 within the rounding of the arithmetic
SnapshotsCoverPlansAndSumToOne ==
    \A h \in Returned :
        \A i \in DOMAIN SessionOf(h).probabilities :
            SnapshotCoversPlans(SessionOf(h).probabilities[i])

\* C1: a run with every proposal and verification applied, under overridden
\* weights, whose last snapshot is no longer uniform
SixSnapshotsRecorded ==
    \E h \in Returned :
        LET session == SessionOf(h)
            last == session.probabilities[Len(session.probabilities)]
        IN  /\ Len(session.probabilities) = 6
            /\ session.runVerification
            /\ handler[h].body.weights # NoValue
            /\ \E i \in DOMAIN last.entries : last.entries[i].probability # 2500

ProbabilityFloor == Quot(DAMPING_FACTOR, Len(planIds) * Unit)

ProbabilityCeiling == Unit - (Len(planIds) - 1) * ProbabilityFloor

\* C2: no probability of any recorded snapshot is 0 or 1: every entry lies
\* between d/N = 0.02 and 1 - d(N-1)/N = 0.94
ProbabilitiesStayDamped ==
    \A h \in Returned :
        \A i \in DOMAIN SessionOf(h).probabilities :
            \A k \in DOMAIN SessionOf(h).probabilities[i].entries :
                LET p == SessionOf(h).probabilities[i].entries[k].probability
                IN  ProbabilityFloor <= p /\ p <= ProbabilityCeiling

\* C2: an update of full weight and confidence 0 has driven a plan down to
\* the floor, in a snapshot after the initial priors
FloorReached ==
    \E h \in Returned :
        \E i \in DOMAIN SessionOf(h).probabilities :
            /\ i > 1
            /\ \E k \in DOMAIN SessionOf(h).probabilities[i].entries :
                   SessionOf(h).probabilities[i].entries[k].probability = ProbabilityFloor

-----------------------------------------------------------------------------
(* Properties of a run as the submit-run handler serves it *)

\* slot h serves a request whose four proposal calls all fail
AllProposalsFail(r) ==
    /\ r.pc # "idle"
    /\ r.body.valid
    /\ \A role \in Range(proposalOrder) : r.world.proposals[role] = NoValue

FatalOutcome(r) ==
    /\ r.pc \in {"classifyPrompt", "generateAgentProposal", "responded"}
    /\ r.session = NoValue
    /\ r.pc = "responded" =>
           /\ Get(r.response).status = 400
           /\ Get(r.response).session = NoValue
           /\ Get(r.response).error # NoValue

CodeRelatedScenarios == {defaultScenario, exampleScenario, rapidScenario}

\* a verification call was made for the run of slot h: the verification
\* endpoint was asked, or the mock ran
Executed(h) == handler[h].mcpCall # NoValue \/ handler[h].fallbackPlan # NoValue

\* C4: verification executes in a run if and only if the scenario is
\* code-related, whatever the caller asked for in runVerification
VerificationIffCodeRelated ==
    /\ \A h \in Slots : Executed(h) => handler[h].scenarioText \in CodeRelatedScenarios
    /\ \A h \in Returned :
           /\ handler[h].scenarioText \in CodeRelatedScenarios => Executed(h)
           /\ SessionOf(h).runVerification = Executed(h)

\* C4: a scenario that holds a keyword in capitals only, verified although the
\* caller asked for no verification
ForcedVerificationExecuted ==
    \E h \in Returned :
        /\ handler[h].scenarioText = rapidScenario
        /\ handler[h].body.runVerification = Some(FALSE)
        /\ handler[h].mcpCall # NoValue

AutoEnabledLabel == "Verification was auto-enabled for code-related scenarios."

HasWarning(session, label) ==
    \E i \in DOMAIN session.generationWarnings : session.generationWarnings[i].s = label

\* C5: a code-related scenario submitted with runVerification = false returns
\* a session whose warning list says that verification was auto-enabled
AutoEnableIsWarned ==
    \A h \in Returned :
        (/\ handler[h].scenarioText \in CodeRelatedScenarios
         /\ handler[h].body.runVerification = Some(FALSE))
            => HasWarning(SessionOf(h), AutoEnabledLabel)

\* C5: the example scenario of the documentation, submitted with
\* runVerification = false, has returned its session with the warning
ExampleScenarioWarned ==
    \E h \in Returned :
        /\ handler[h].scenarioText = exampleScenario
        /\ handler[h].body.runVerification = Some(FALSE)
        /\ SessionOf(h).runVerification
        /\ HasWarning(SessionOf(h), AutoEnabledLabel)

\* the warnings that report a failed generation call
GenerationFailureLabels ==
    {"Prompt classification failed; defaulting to reasoning-analysis. ",
     "[planner] Proposal generation failed. ",
     "[skeptic] Proposal generation failed. ",
     "[security] Proposal generation failed. ",
     "[cost] Proposal generation failed. ",
     "Final solution generation failed. ",
     "Final response generation failed. "}

\* a non-code scenario for which the caller asked for verification
RequestOverridden(h) ==
    /\ handler[h].scenarioText \notin CodeRelatedScenarios
    /\ handler[h].body.runVerification = Some(TRUE)

\* C6 as stated: a non-code scenario submitted with runVerification = true
\* skips verification and its session holds a warning that records the
\* override, that is a warning other than those of the generation calls
SkippedRequestIsWarned ==
    \A h \in Returned :
        RequestOverridden(h) =>
            /\ ~Executed(h)
            /\ \E i \in DOMAIN SessionOf(h).generationWarnings :
                   SessionOf(h).generationWarnings[i].s \notin GenerationFailureLabels

\* C6 as the code has it: a non-code scenario submitted with runVerification =
\* true skips verification (no call, runVerification false in the session, an
\* empty evidence ledger) and no warning records the override
SkippedRequestIsSilent ==
    \A h \in Returned :
        RequestOverridden(h) =>
            /\ ~Executed(h)
            /\ ~SessionOf(h).runVerification
            /\ SessionOf(h).evidenceLedger = <<>>
            /\ \A i \in DOMAIN SessionOf(h).generationWarnings :
                   SessionOf(h).generationWarnings[i].s \in GenerationFailureLabels

\* C6: the session of a non-code scenario submitted with runVerification =
\* true, whose generation calls all succeeded: its warning list is empty
SkippedWithoutWarning ==
    \E h \in Returned :
        /\ RequestOverridden(h)
        /\ handler[h].scenarioText = picnicScenario
        /\ SessionOf(h).generationWarnings = <<>>
        /\ Len(SessionOf(h).probabilities) = 6

\* the probability the snapshot holds for the plan
SnapshotProbability(snapshot, planId) ==
    snapshot.entries[CHOOSE i \in DOMAIN snapshot.entries :
                         snapshot.entries[i].planId = planId].probability

\* the plan at position k of the plan array is the first of those of maximum
\* probability in the snapshot
FirstMaximum(plans, snapshot, k) ==
    /\ \A j \in DOMAIN plans :
           SnapshotProbability(snapshot, plans[j].id) <= SnapshotProbability(snapshot, plans[k].id)
    /\ \A j \in 1..(k - 1) :
           SnapshotProbability(snapshot, plans[j].id) < SnapshotProbability(snapshot, plans[k].id)

FinalSnapshot(session) == session.probabilities[Len(session.probabilities)]

\* C7: finalPlanId is the plan of maximum probability in the final snapshot,
\* the first in plan-array order when several tie, and belief.probability is
\* that plan's probability in the final snapshot
FinalPlanIsFirstMaximum ==
    \A h \in Returned :
        LET session == SessionOf(h)
        IN  \E k \in DOMAIN session.plans :
                /\ session.plans[k].id = session.finalPlanId
                /\ planIds[k] = session.finalPlanId
                /\ FirstMaximum(session.plans, FinalSnapshot(session), k)
                /\ session.belief.probability =
                       SnapshotProbability(FinalSnapshot(session), session.finalPlanId)

\* C7: a final snapshot, revised by proposals, in which the chosen plan ties
\* for the maximum with a later plan
TieForMaximum ==
    \E h \in Returned :
        LET session == SessionOf(h)
            last == FinalSnapshot(session)
        IN  /\ Len(session.probabilities) > 2
            /\ \E planId \in Range(planIds) \ {session.finalPlanId} :
                   SnapshotProbability(last, planId) =
                       SnapshotProbability(last, session.finalPlanId)
            /\ \E planId \in Range(planIds) :
                   SnapshotProbability(last, planId) <
                       SnapshotProbability(last, session.finalPlanId)

\* C8: after any sequence of requests served one after the other, the
\* persisted list holds min(n, 25) sessions for n completed runs, they are the
\* most recently completed runs, most recent first; failed runs add nothing
PersistedListIsLatestRuns ==
    /\ Len(sessionsFile) = Min(Len(completed), MaxSessions)
    /\ \A i \in DOMAIN sessionsFile :
           sessionsFile[i] = trimSession(completed[Len(completed) - i + 1])
    /\ \A i \in 1..(Len(sessionsFile) - 1) :
           sessionsFile[i].createdAt > sessionsFile[i + 1].createdAt

\* C8: more runs have completed than the list keeps, with a failed run among
\* the requests
OlderRunsDropped ==
    /\ Len(completed) > MaxSessions
    /\ failedRuns > 0
    /\ Len(sessionsFile) = MaxSessions
    /\ sessionsFile[1].id = completed[Len(completed)].id

\* the run of slot h has a code-related scenario and has collected at least
\* one usable proposal
ReachesVerification(r) ==
    /\ r.pc # "idle"
    /\ r.body.valid
    /\ r.scenarioText \in CodeRelatedScenarios
    /\ Len(r.proposals) > 0

\* C9: whatever the verification call does, a code-related run with a usable
\* proposal is never ended by it: the verification step always has a next
\* step, and the response carries the session
VerificationNeverFatal ==
    \A h \in Slots :
        ReachesVerification(handler[h]) =>
            /\ handler[h].pc \in {"callMcpTool", "mockRunVerification"} => ENABLED Step(h)
            /\ handler[h].pc = "responded" =>
                   /\ Get(handler[h].response).status = 200
                   /\ Get(handler[h].response).session = handler[h].session
                   /\ handler[h].session # NoValue

\* C9: the session returned after the verification endpoint rejected the call
SessionAfterThrownVerification ==
    \E h \in Slots :
        /\ ReachesVerification(handler[h])
        /\ handler[h].pc = "responded"
        /\ handler[h].world.mcp.kind = "rejected"
        /\ handler[h].mcpCall # NoValue
        /\ Get(handler[h].response).status = 200
        /\ SessionOf(h).adapter = "mock"

FallbackLabel == "MCP verification failed; fell back to mock. "

\* the run of the session fell back to the mock verification
FellBack(session) == session.runVerification /\ session.adapter = "mock"

\* C10 as stated: whenever the run falls back to mock verification, the
\* session's warning list holds a warning for the fallback and the evidence
\* ledger holds a low-reliability log entry for it
FallbackIsWarned ==
    \A h \in Returned :
        FellBack(SessionOf(h)) =>
            /\ HasWarning(SessionOf(h), FallbackLabel)
            /\ \E i \in DOMAIN SessionOf(h).evidenceLedger :
                   /\ SessionOf(h).evidenceLedger[i].type = "log"
                   /\ SessionOf(h).evidenceLedger[i].summary = "Verification warning"
                   /\ SessionOf(h).evidenceLedger[i].reliability <= 4000

-----------------------------------------------------------------------------
(* Properties of the external calls *)

\* C11 as stated: a verification call that is not answered within its timeout
\* is aborted, so an endpoint that never answers cannot block the run: once
\* the timer has fired on a pending call, the run has a next step to take
TimeoutUnblocksRun ==
    \A h \in Slots :
        (handler[h].pc = "callMcpTool" /\ handler[h].mcpTimer = "fired")
            => ENABLED Step(h)

-----------------------------------------------------------------------------
(* Properties of the belief revision and of the plans *)

\* the plan each role's proposal stands for
PlanOfRole ==
    [planner |-> "plan-a", skeptic |-> "plan-b", security |-> "plan-c", cost |-> "plan-d"]

RoleOrder == <<"planner", "skeptic", "security", "cost">>

HasProposal(session, role) ==
    \E i \in DOMAIN session.proposals : session.proposals[i].agent = role

ProposalOfRole(session, role) ==
    session.proposals[CHOOSE i \in DOMAIN session.proposals : session.proposals[i].agent = role]

\* how many of the first k roles have a proposal
ProposalsAmong(session, k) ==
    Cardinality({i \in 1..k : HasProposal(session, RoleOrder[i])})

Probabilities(entries) ==
    [i \in DOMAIN entries |-> <<entries[i].planId, entries[i].probability>>]

\* the distribution a role's update leaves, from the one before it
AfterRole(session, previous, k) ==
    LET role == RoleOrder[k]
        weight == session.weights[role]
        asserted == ProposalOfRole(session, role).confidence
        updated == [i \in DOMAIN previous |->
                       IF previous[i].planId = PlanOfRole[role]
                       THEN [previous[i] EXCEPT !.probability =
                                Mul(@, Unit - weight) + Mul(asserted, weight)]
                       ELSE previous[i]]
    IN  Probabilities(dampAndNormalize(updated))

\* C12: the per-role updates are applied in the order planner, skeptic,
\* security, cost, only for the roles with a usable proposal, each to the
\* role's plan with the role's confidence and resolved weight, each damped and
\* normalised and recorded at run start + (2 + 2 * roleIndex) minutes, each
\* starting from the distribution the previous update left
RoleUpdatesInOrder ==
    \A h \in Returned :
        LET session == SessionOf(h)
        IN  /\ Len(session.probabilities) = ProposalsAmong(session, 4) + 2
            /\ \A k \in 1..4 :
                   HasProposal(session, RoleOrder[k]) =>
                       LET n == ProposalsAmong(session, k)
                           snapshot == session.probabilities[n + 1]
                           previous == session.probabilities[n].entries
                       IN  /\ snapshot.timestamp = session.createdAt + (2 + 2 * (k - 1)) * 60000
                           /\ Probabilities(snapshot.entries) = AfterRole(session, previous, k)
                           /\ \E i \in DOMAIN snapshot.entries :
                                  /\ snapshot.entries[i].planId = PlanOfRole[RoleOrder[k]]
                                  /\ snapshot.entries[i].updatedBy = RoleOrder[k]

\* C12: a run in which only the skeptic and the cost role proposed, with
\* overridden weights: two role snapshots, the second moved from the first
TwoRolesRevised ==
    \E h \in Returned :
        LET session == SessionOf(h)
        IN  /\ {session.proposals[i].agent : i \in DOMAIN session.proposals} = {"skeptic", "cost"}
            /\ handler[h].body.weights # NoValue
            /\ Len(session.probabilities) = 4
            /\ Probabilities(session.probabilities[2].entries)
                   # Probabilities(session.probabilities[1].entries)
            /\ Probabilities(session.probabilities[3].entries)
                   # Probabilities(session.probabilities[2].entries)

\* C13: the plans of a session are exactly plan-a, plan-b, plan-c, plan-d in
\* that order, from planner, skeptic, security, cost; a role without a usable
\* proposal contributes the placeholder "No proposal available." with the
\* generic steps
FourPlansFromRoles ==
    \A h \in Returned :
        LET session == SessionOf(h)
        IN  /\ Len(session.plans) = 4
            /\ \A k \in 1..4 :
                   /\ session.plans[k].id = PlanOfRole[RoleOrder[k]]
                   /\ IF HasProposal(session, RoleOrder[k])
                      THEN /\ session.plans[k].summary = ProposalOfRole(session, RoleOrder[k]).proposal
                           /\ session.plans[k].steps = ProposalOfRole(session, RoleOrder[k]).rationale
                      ELSE /\ session.plans[k].summary.s = "No proposal available."
                           /\ session.plans[k].steps =
                                  <<"Gather details", "Draft approach", "Validate outcome">>

\* C13: the plans of a run in which the security role alone proposed
PlaceholdersAroundOnePlan ==
    \E h \in Returned :
        LET session == SessionOf(h)
        IN  /\ Len(session.proposals) = 1
            /\ session.proposals[1].agent = "security"
            /\ session.plans[3].summary = session.proposals[1].proposal
            /\ session.plans[1].summary.s = "No proposal available."
            /\ session.plans[4].summary.s = "No proposal available."

-----------------------------------------------------------------------------
(* Properties of the engine's functions *)

\* the calls of the function that have returned
ReturnedFrom(function) ==
    {h \in Slots : handler[h].function = function /\ handler[h].pc = "returned"}

ResultOf(h) == Get(handler[h].result)

DefaultWeightOf ==
    [planner |-> 3500, skeptic |-> 4500, security |-> 5000, cost |-> 4000,
     synthesizer |-> 6000]

Clamped(value) == IF value < 0 THEN 0 ELSE IF value > Unit THEN Unit ELSE value

GivenWeight(overrides, role) ==
    IF overrides = NoValue THEN NoValue ELSE Get(overrides)[role]

\* C14: resolveWeights returns, for each of the five roles, the override
\* clamped to [0, 1], or the fixed default of the role when no override is given
WeightsClampedOrDefault ==
    \A h \in ReturnedFrom("resolveWeights") :
        /\ DOMAIN ResultOf(h) = Roles
        /\ \A role \in Roles :
               LET given == GivenWeight(handler[h].arguments, role)
               IN  ResultOf(h)[role] = IF given = NoValue THEN DefaultWeightOf[role]
                                       ELSE Clamped(Get(given))

\* C14: the result for overrides of which one is below 0, one above 1, one
\* missing and one inside the range
WeightsOutOfRangeResolved ==
    \E h \in ReturnedFrom("resolveWeights") :
        /\ handler[h].arguments # NoValue
        /\ Get(handler[h].arguments).planner = Some(-5000)
        /\ Get(handler[h].arguments).skeptic = Some(10001)
        /\ Get(handler[h].arguments).security = Some(3000)
        /\ Get(handler[h].arguments).cost = NoValue
        /\ ResultOf(h) = [planner |-> 0, skeptic |-> Unit, security |-> 3000,
                          cost |-> 4000, synthesizer |-> ResultOf(h).synthesizer]

\* C15: for non-negative probabilities the output of normalizeEntries sums to
\* 1 within rounding; it is uniform, 1/N each, when every input is 0, and
\* input/total otherwise
NormalizedSumsToOne ==
    \A h \in ReturnedFrom("normalizeEntries") :
        LET entries == handler[h].arguments
            result == ResultOf(h)
            total == SumProbability(entries)
        IN  /\ Len(result) = Len(entries)
            /\ 2 * Distance(SumProbability(result), Unit) <= Len(entries)
            /\ \A i \in DOMAIN entries :
                   /\ result[i].planId = entries[i].planId
                   /\ IF total = 0
                      THEN 2 * Distance(Len(entries) * result[i].probability, Unit) <= Len(entries)
                      ELSE 2 * Distance(result[i].probability * total,
                                        entries[i].probability * Unit) <= total

\* C15: three entries of probability 0 normalised to a third each
ZeroTotalMadeUniform ==
    \E h \in ReturnedFrom("normalizeEntries") :
        /\ Len(handler[h].arguments) = 3
        /\ SumProbability(handler[h].arguments) = 0
        /\ \A i \in 1..3 : ResultOf(h)[i].probability = 3333

\* the probability of the plan the update is about
Targeted(entries, update) ==
    entries[CHOOSE i \in DOMAIN entries : entries[i].planId = update.planId].probability

\* C16: applyWeightedUpdate with weight 0 leaves the probability of the
\* targeted plan as it was, and with weight 1 sets it to the asserted probability
WeightZeroKeepsWeightOneSets ==
    \A h \in ReturnedFrom("applyWeightedUpdate") :
        LET call == handler[h].arguments
        IN  /\ call.weight = 0 =>
                   Targeted(ResultOf(h), call.update) = Targeted(call.previous, call.update)
            /\ call.weight = Unit =>
                   Targeted(ResultOf(h), call.update) = call.update.probability

\* C16: an update of weight 1 that has replaced a prior of 0.25 by 1
FullWeightReplacedPrior ==
    \E h \in ReturnedFrom("applyWeightedUpdate") :
        LET call == handler[h].arguments
        IN  /\ call.weight = Unit
            /\ Targeted(call.previous, call.update) = 2500
            /\ call.update.probability = Unit
            /\ Targeted(ResultOf(h), call.update) = Unit

\* the largest probability of the entries
Largest(entries) ==
    CHOOSE p \in {entries[i].probability : i \in DOMAIN entries} :
        \A i \in DOMAIN entries : entries[i].probability <= p

\* C18: belief.variance is "low" when the final probability of the winning
\* plan is at least 0.66, "medium" when it is at least 0.5 and below 0.66, and
\* "high" otherwise
VarianceFollowsThresholds ==
    \A h \in ReturnedFrom("belief") :
        LET winning == Largest(handler[h].arguments)
            belief == ResultOf(h).belief
        IN  /\ belief.probability = winning
            /\ belief.probability = Targeted(handler[h].arguments,
                                             [planId |-> ResultOf(h).finalPlanId])
            /\ belief.variance = "low" <=> winning >= 6600
            /\ belief.variance = "medium" <=> (winning >= 5000 /\ winning < 6600)
            /\ belief.variance = "high" <=> winning < 5000

\* C18: a winning plan of probability 0.66 exactly, found of low variance
VarianceAtThreshold ==
    \E h \in ReturnedFrom("belief") :
        /\ Largest(handler[h].arguments) = 6600
        /\ ResultOf(h).finalPlanId = "plan-c"
        /\ ResultOf(h).belief.variance = "low"

ClassificationFailedLabel == "Prompt classification failed; defaulting to reasoning-analysis. "

\* the classification of the run fails: the call throws, or answers with a
\* label outside the fixed categories
ClassificationFails(r) ==
    /\ r.pc # "idle"
    /\ r.body.valid
    /\ classifyPrompt(r.world.classify) = NoValue

\* the run is past its classification
Classified(r) ==
    \/ r.pc \in {"generateAgentProposal", "callMcpTool", "mockRunVerification",
                 "generateFinalSolution", "generateFinalResponse",
                 "readSessions", "writeSessions"}
    \/ r.session # NoValue

\* C19: a failed scenario classification, thrown or answered with a label
\* outside the 14 categories, is never fatal: the run continues with the
\* proposals, a warning is appended to the warning list and the category is
\* "reasoning-analysis"
ClassificationFailureNotFatal ==
    /\ [](\A h \in Slots :
            (ClassificationFails(handler[h]) /\ Classified(handler[h])) =>
                /\ handler[h].promptCategory = Some("reasoning-analysis")
                /\ \E i \in DOMAIN handler[h].generationWarnings :
                       handler[h].generationWarnings[i].s = ClassificationFailedLabel
                /\ handler[h].session # NoValue =>
                       /\ SessionOf(h).promptCategory = Some("reasoning-analysis")
                       /\ HasWarning(SessionOf(h), ClassificationFailedLabel))
    /\ [][\A h \in Slots :
            (/\ ClassificationFails(handler[h])
             /\ handler[h].pc = "classifyPrompt"
             /\ handler'[h] # handler[h]) =>
                /\ handler'[h].pc = "generateAgentProposal"
                /\ handler'[h].response = NoValue
                /\ handler'[h].generationWarnings # <<>>
                /\ handler'[h].generationWarnings[1].s = ClassificationFailedLabel
                /\ failedRuns' = failedRuns]_vars

\* C19: a session returned by a run whose classification answered with a
\* label outside the categories
UnlistedLabelDefaulted ==
    \E h \in Returned :
        /\ handler[h].world.classify = "unlisted"
        /\ SessionOf(h).promptCategory = Some("reasoning-analysis")
        /\ HasWarning(SessionOf(h), ClassificationFailedLabel)

\* the provider the run of slot h asks for: the one of the request, else the
\* one of the environment, else groq
ProviderOf(h) ==
    IF handler[h].body.llmProvider # NoValue THEN Get(handler[h].body.llmProvider)
    ELSE IF handler[h].priorProvider # NoValue THEN Get(handler[h].priorProvider)
    ELSE "groq"

\* the run of slot h has no configured provider: groq without its key, ollama
\* without its model
NotConfigured(h) ==
    /\ handler[h].pc # "idle"
    /\ handler[h].body.valid
    /\ IF ProviderOf(h) = "ollama" THEN ~processEnv.OLLAMA_MODEL
       ELSE ~processEnv.GROQ_API_KEY

Attempted(h) ==
    {agents[i] : i \in {j \in 1..Len(agents) :
        /\ agents[j] # "synthesizer"
        /\ handler[h].pc # "generateAgentProposal" \/ j < handler[h].agentIndex}}

\* the answer that ended the turn of a role: the second one after a first
\* that was no JSON or no valid proposal, else the first
LastAnswer(h, role) ==
    IF handler[h].chat[role][1].kind \in {"malformed", "invalid"}
    THEN handler[h].chat[role][2]
    ELSE handler[h].chat[role][1]

\* the warnings of slot h tagged with the role
RoleWarnings(h, role) ==
    {i \in DOMAIN handler[h].generationWarnings :
        handler[h].generationWarnings[i].s = proposalFailed(role).s}

TranscriptAgents(session) == {session.transcript[i].agent : i \in DOMAIN session.transcript}

\* C22: a returned session whose four proposals and final solution were all
\* generated has a transcript of five messages, one per agent, the
\* synthesizer included
TranscriptHasEveryAgent ==
    \A h \in Returned :
        (/\ \A role \in Range(proposalOrder) : HasProposal(SessionOf(h), role)
         /\ handler[h].finalSolution # NoValue) =>
            /\ Len(SessionOf(h).transcript) = Len(agents)
            /\ TranscriptAgents(SessionOf(h)) = Roles

\* the reliability written to the verification entry of the session's ledger
LedgerReliability(session) ==
    {session.evidenceLedger[i].reliability :
        i \in {j \in DOMAIN session.evidenceLedger :
                  session.evidenceLedger[j].id = <<"evidence-verification">>}}

\* C23 as stated: on every fallback path of verification (error status, thrown
\* error, unreachable endpoint) the reliability used for the belief update and
\* written to the verification entry of the ledger is 0.2
FallbackReliabilityIsLow ==
    \A h \in Returned :
        FellBack(SessionOf(h)) =>
            /\ ReliabilityOf(handler[h].verification) = 2000
            /\ LedgerReliability(SessionOf(h)) = {2000}

\* the position of the first entry of largest probability
FirstLargest(entries) ==
    CHOOSE k \in DOMAIN entries :
        /\ \A j \in DOMAIN entries : entries[j].probability <= entries[k].probability
        /\ \A j \in 1..(k - 1) : entries[j].probability < entries[k].probability

\* the distribution the verification update leaves, from the one before it
AfterVerification(session, verification, previous) ==
    LET k == FirstLargest(previous)
        weight == Clamped(Mul(session.weights.synthesizer, ReliabilityOf(verification)))
        asserted == IF verification.passed THEN 8200 ELSE 1800
        updated == [i \in DOMAIN previous |->
                       IF i = k
                       THEN [previous[i] EXCEPT !.probability =
                                Clamped(Mul(@, Unit - weight) + Mul(asserted, weight))]
                       ELSE previous[i]]
    IN  Probabilities(dampAndNormalize(updated))

\* the snapshots of the session taken at run start + 16 minutes
SnapshotsAtSixteen(session) ==
    {i \in DOMAIN session.probabilities :
        session.probabilities[i].timestamp = session.createdAt + 16 * 60000}

\* C24: when verification executed, the belief update targets the plan of
\* highest probability in the distribution the last role update left, the
\* first in plan order on a tie, with effective weight clamp(synthesizer
\* weight * reliability) and asserted probability 0.82 when verification
\* passed and 0.18 otherwise, is damped and normalised, and is recorded by
\* exactly one snapshot at run start + 16 minutes
VerificationUpdatesLeadingPlan ==
    \A h \in Returned :
        LET session == SessionOf(h)
            n == Len(session.probabilities)
        IN  session.runVerification =>
                /\ n = ProposalsAmong(session, 4) + 2
                /\ SnapshotsAtSixteen(session) = {n}
                /\ Probabilities(session.probabilities[n].entries) =
                       AfterVerification(session, handler[h].verification,
                                         session.probabilities[n - 1].entries)

\* C24: a failed verification at weight 1 * 0.75 applied to a distribution in
\* which two plans tie for the lead, neither of them the first plan
FailedVerificationOnTie ==
    \E h \in Returned :
        LET session == SessionOf(h)
            n == Len(session.probabilities)
            previous == session.probabilities[n - 1].entries
            k == FirstLargest(previous)
        IN  /\ session.runVerification
            /\ ~handler[h].verification.passed
            /\ session.weights.synthesizer = Unit
            /\ k > 1
            /\ \E j \in (k + 1)..Len(previous) :
                   previous[j].probability = previous[k].probability
            /\ session.probabilities[n].entries[k].probability < previous[k].probability

\* the probability of the leading plan after the synthesizer's weighted
\* update, before damping and normalisation
NudgedLead(session, previous) ==
    LET p == previous[FirstLargest(previous)].probability
        weight == session.weights.synthesizer
    IN  Mul(p, Unit - weight) + Mul(Min(7000, p + 500), weight)

\* the distribution the synthesizer's update leaves, from the one before it
AfterSynthesizer(session, previous) ==
    LET k == FirstLargest(previous)
        updated == [i \in DOMAIN previous |->
                       IF i = k
                       THEN [previous[i] EXCEPT !.probability = NudgedLead(session, previous)]
                       ELSE previous[i]]
    IN  Probabilities(dampAndNormalize(updated))

\* the sessions returned by runs that did not verify
Unverified == {h \in Returned : ~SessionOf(h).runVerification}

\* C25 as stated: without verification the synthesizer asserts
\* min(0.7, p + 0.05) for the leading plan at the synthesizer's weight, and the
\* leading plan's probability after the weighted update is never lower than
\* its probability p before it
SynthesizerNeverLowersLead ==
    \A h \in Unverified :
        LET session == SessionOf(h)
            n == Len(session.probabilities)
            previous == session.probabilities[n - 1].entries
        IN  /\ Probabilities(session.probabilities[n].entries) = AfterSynthesizer(session, previous)
            /\ NudgedLead(session, previous) >= previous[FirstLargest(previous)].probability

\* C25: without verification the synthesizer asserts min(0.7, p + 0.05) for
\* the leading plan at the synthesizer's weight, recorded at run start + 16
\* minutes; the weighted update does not lower a leading probability p of at
\* most 0.7, and does not raise one above 0.7: it pulls it down towards 0.7
SynthesizerPullsLeadTowardsCap ==
    \A h \in Unverified :
        LET session == SessionOf(h)
            n == Len(session.probabilities)
            previous == session.probabilities[n - 1].entries
            p == previous[FirstLargest(previous)].probability
        IN  /\ n = ProposalsAmong(session, 4) + 2
            /\ SnapshotsAtSixteen(session) = {n}
            /\ session.probabilities[n].note = "Verification skipped; synthesizer adjusted confidence."
            /\ Probabilities(session.probabilities[n].entries) = AfterSynthesizer(session, previous)
            /\ p <= 7000 => NudgedLead(session, previous) >= p
            /\ p > 7000 => /\ NudgedLead(session, previous) <= p
                           /\ NudgedLead(session, previous) >= 7000

\* C25: a leading plan above 0.7 that the synthesizer, at weight 1, set back to 0.7
LeadSetBackToCap ==
    \E h \in Unverified :
        LET session == SessionOf(h)
            n == Len(session.probabilities)
            previous == session.probabilities[n - 1].entries
        IN  /\ previous[FirstLargest(previous)].probability > 7000
            /\ session.weights.synthesizer = Unit
            /\ NudgedLead(session, previous) = 7000

\* C26: applyWeightedUpdate changes only the entry of the targeted plan: the
\* probability, updatedBy, rationale and timestamp of every other entry are
\* returned as they were, and the number and order of the entries is kept
UpdateLeavesOtherEntries ==
    \A h \in ReturnedFrom("applyWeightedUpdate") :
        LET call == handler[h].arguments
        IN  /\ Len(ResultOf(h)) = Len(call.previous)
            /\ \A i \in DOMAIN call.previous :
                   /\ ResultOf(h)[i].planId = call.previous[i].planId
                   /\ call.previous[i].planId # call.update.planId =>
                          ResultOf(h)[i] = call.previous[i]

\* C26: an update of the third plan that moved its probability and rewrote
\* its author and timestamp, between entries left as they were
ThirdEntryUpdatedAlone ==
    \E h \in ReturnedFrom("applyWeightedUpdate") :
        LET call == handler[h].arguments
        IN  /\ call.update.planId = "plan-c"
            /\ ResultOf(h)[3].probability # call.previous[3].probability
            /\ ResultOf(h)[3].updatedBy = "skeptic"
            /\ ResultOf(h)[3].timestamp # call.previous[3].timestamp
            /\ ResultOf(h)[2] = call.previous[2]
            /\ ResultOf(h)[4] = call.previous[4]

\* the update asserts nothing new for a plan at the uniform prior: its weight
\* is 0, or its confidence is the prior
Idle(update) == update.weight = 0 \/ update.confidence = 2500

\* C27: the per-role updates do not commute: from the initial priors, two
\* role updates, each followed by dampAndNormalize, leave another distribution
\* when their order is swapped, unless neither of them moves its plan
RoleUpdatesDoNotCommute ==
    \A h \in ReturnedFrom("reviseFromAgent") :
        (Probabilities(ResultOf(h).inOrder) = Probabilities(ResultOf(h).swapped))
            <=> (Idle(handler[h].arguments.first) /\ Idle(handler[h].arguments.second))

\* C27: planner and cost, both at weight 0.35 and confidence 1, applied in
\* the two orders: the role applied last ends higher
SwappedOrderDiffers ==
    \E h \in ReturnedFrom("reviseFromAgent") :
        LET call == handler[h].arguments
        IN  /\ call.first = RoleUpdate(1, 10000, 3500)
            /\ call.second = RoleUpdate(4, 10000, 3500)
            /\ ResultOf(h).inOrder[1].probability < ResultOf(h).inOrder[4].probability
            /\ ResultOf(h).swapped[1].probability > ResultOf(h).swapped[4].probability

\* the sessions returned with entries in their evidence ledger
WithLedger == {h \in Returned : SessionOf(h).evidenceLedger # <<>>}

LedgerIds(session) == [i \in DOMAIN session.evidenceLedger |-> session.evidenceLedger[i].id]

\* the ledger entries of type "log"
LogEntries(session) ==
    {i \in DOMAIN session.evidenceLedger : session.evidenceLedger[i].type = "log"}

WarningIds(session) ==
    [i \in DOMAIN session.generationWarnings |-> <<"evidence-generation-warning", i - 1>>]

\* the entries after the two analyses are, one by one, the warnings of the list
WarningsLogged(session) ==
    \A i \in DOMAIN session.generationWarnings :
        /\ session.evidenceLedger[2 + i].type = "log"
        /\ session.evidenceLedger[2 + i].summary = "Generation warning"
        /\ session.evidenceLedger[2 + i].details = session.generationWarnings[i]

\* C28: a populated ledger holds exactly one "Generation warning" log entry
\* per warning of the session's warning list, whatever step of the run
\* recorded it, plus one planner analysis entry, one security analysis entry,
\* one verification-result entry and a final patch entry; the only other
\* entry it can hold is the "Verification warning" log entry of a
\* verification result that carries a fallback warning
LedgerLogsEveryWarning ==
    \A h \in WithLedger :
        LET session == SessionOf(h)
            n == Len(session.evidenceLedger)
            fallback == handler[h].verification.warning # NoValue
        IN  /\ LedgerIds(session) =
                   <<<<"evidence-planner">>, <<"evidence-security">>>>
                       \o WarningIds(session)
                       \o <<<<"evidence-verification">>>>
                       \o (IF fallback THEN <<<<"evidence-warning">>>> ELSE <<>>)
                       \o <<<<"evidence-patch">>>>
            /\ WarningsLogged(session)
            /\ session.evidenceLedger[1].type = "analysis"
            /\ session.evidenceLedger[2].type = "analysis"
            /\ session.evidenceLedger[3 + Len(session.generationWarnings)].type = "test"
            /\ session.evidenceLedger[n].type = "patch"
            /\ Cardinality(LogEntries(session)) =
                   Len(session.generationWarnings) + (IF fallback THEN 1 ELSE 0)
            /\ fallback =>
                   /\ session.evidenceLedger[n - 1].type = "log"
                   /\ session.evidenceLedger[n - 1].summary = "Verification warning"

\* C28: a ledger with the warnings of four steps of the run (classification,
\* auto-enabled verification, thrown verification, final solution) and the
\* log entry of the fallback
LedgerOfFourWarnings ==
    \E h \in WithLedger :
        LET session == SessionOf(h)
        IN  /\ HasWarning(session, ClassificationFailedLabel)
            /\ HasWarning(session, AutoEnabledLabel)
            /\ HasWarning(session, FallbackLabel)
            /\ HasWarning(session, "Final solution generation failed. ")
            /\ Len(session.generationWarnings) >= 4
            /\ Len(session.evidenceLedger) = Len(session.generationWarnings) + 5

\* the run of slot h got past its proposals: it is configured and some role
\* proposed
Proposed(h) ==
    /\ handler[h].pc # "idle"
    /\ handler[h].body.valid
    /\ ~NotConfigured(h)
    /\ ~AllProposalsFail(handler[h])

SolutionFailedLabel == "Final solution generation failed. "

ResponseFailedLabel == "Final response generation failed. "

\* C29: when final-solution generation fails the run still completes: a
\* warning is recorded, the session's finalSolution is the summary, steps and
\* risks of the second plan (plan-b) with the generic assumptions placeholder,
\* and no final-response generation call is made
FailedSolutionTakesSecondPlan ==
    \A h \in Slots :
        (Proposed(h) /\ handler[h].world.finalSolution = "throw") =>
            /\ handler[h].pc # "generateFinalResponse"
            /\ handler[h].responseCalls = 0
            /\ handler[h].pc = "responded" =>
                   /\ Get(handler[h].response).status = 200
                   /\ handler[h].session # NoValue
            /\ handler[h].session # NoValue =>
                   LET session == SessionOf(h)
                   IN  /\ HasWarning(session, SolutionFailedLabel)
                       /\ session.plans[2].id = "plan-b"
                       /\ Get(session.finalSolution) =
                              [summary |-> session.plans[2].summary,
                               steps |-> session.plans[2].steps,
                               risks |-> session.plans[2].risks,
                               assumptions |->
                                   <<"Assumptions not explicitly generated; use caution.">>]
                       /\ session.action.response = session.plans[2].summary

\* C29: an answered run whose final solution failed after all roles had
\* proposed: the substitute is the skeptic's proposal, not the planner's
SubstitutedSolutionAnswered ==
    \E h \in Returned :
        /\ handler[h].world.finalSolution = "throw"
        /\ handler[h].pc = "responded"
        /\ HasProposal(SessionOf(h), "planner")
        /\ HasProposal(SessionOf(h), "skeptic")
        /\ Get(SessionOf(h).finalSolution).summary = ProposalOfRole(SessionOf(h), "skeptic").proposal
        /\ Get(SessionOf(h).finalSolution).summary # SessionOf(h).plans[1].summary

\* the final response of the run fails: the request is rejected, or two
\* answers in a row are no JSON with a response field
ResponseFails(h) ==
    /\ Proposed(h)
    /\ handler[h].world.finalSolution = "ok"
    /\ handler[h].world.finalResponse \in {"throw", "retriedInVain"}

\* C30: when final-response generation fails, after at most one retry, the
\* run still completes, a warning is recorded and the session's
\* action.response is the summary of the final solution; no returned session
\* has an empty action.response
FailedResponseTakesSummary ==
    \A h \in Slots :
        /\ handler[h].responseCalls <= 2
        /\ handler[h].session # NoValue => SessionOf(h).action.response.n > 0
        /\ ResponseFails(h) =>
            /\ handler[h].pc = "responded" =>
                   /\ Get(handler[h].response).status = 200
                   /\ handler[h].session # NoValue
            /\ handler[h].session # NoValue =>
                   /\ handler[h].responseCalls =
                          IF handler[h].world.finalResponse = "throw" THEN 1 ELSE 2
                   /\ HasWarning(SessionOf(h), ResponseFailedLabel)
                   /\ SessionOf(h).action.response = Get(SessionOf(h).finalSolution).summary
                   /\ SessionOf(h).action.response = Get(handler[h].finalSolution).summary

\* C30: an answered run whose final response failed on its retry
FailedRetryAnswered ==
    \E h \in Returned :
        /\ handler[h].world.finalResponse = "retriedInVain"
        /\ handler[h].responseCalls = 2
        /\ handler[h].pc = "responded"
        /\ HasWarning(SessionOf(h), ResponseFailedLabel)

-----------------------------------------------------------------------------
(* The plan the fallback verifies *)

\* the run asked the verification endpoint about a plan and then fell back
\* to the mock adapter
FellBackAfterCall(h) ==
    /\ handler[h].mcpCall # NoValue
    /\ handler[h].pc \in {"generateFinalSolution", "generateFinalResponse",
                          "readSessions", "writeSessions", "responded"}
    /\ handler[h].verification.adapterName = "mock"

\* C31 as stated: when verification falls back to the mock adapter, on the
\* error-status path and on the thrown-error path alike, the outcome of the
\* fallback is the mock's outcome for the plan id that was sent to the
\* verification endpoint
FallbackKeyedByTargetPlan ==
    \A h \in Slots :
        FellBackAfterCall(h) =>
            handler[h].verification.passed =
                (Get(handler[h].mcpCall).planId = "plan-b")

-----------------------------------------------------------------------------
(* The plan sent for verification and the plan the result updates *)

\* the plan the verification update of a returned session acted on: the
\* first of highest probability in the distribution the role updates left
UpdatedPlanId(session) ==
    LET previous == session.probabilities[Len(session.probabilities) - 1].entries
    IN  previous[FirstLargest(previous)].planId

\* C32 as stated: in a run where verification executes, the plan id sent to
\* the verification endpoint is the plan whose probability the verification
\* result then updates, for all proposal confidences and weights
VerifiedPlanIsUpdatedPlan ==
    \A h \in Returned :
        (SessionOf(h).runVerification /\ handler[h].mcpCall # NoValue) =>
            Get(handler[h].mcpCall).planId = UpdatedPlanId(SessionOf(h))

-----------------------------------------------------------------------------
(* The snapshots of a session *)

\* the offsets, in minutes, of the snapshots a session must hold: 1 for the
\* priors, 2, 4, 6, 8 for those of the four roles that proposed, 16 for the
\* verification or synthesizer step
RECURSIVE RoleOffsets(_, _)
RoleOffsets(session, index) ==
    IF index > Len(RoleOrder) THEN <<>>
    ELSE (IF HasProposal(session, RoleOrder[index]) THEN <<2 * index>> ELSE <<>>)
             \o RoleOffsets(session, index + 1)

SnapshotOffsets(session) == <<1>> \o RoleOffsets(session, 1) \o <<16>>

\* C33: every returned session has exactly 2 + k probability snapshots, k the
\* number of usable proposals: one of the priors at 1 minute after run start,
\* one per role that proposed at 2, 4, 6, 8 minutes, one of the verification
\* or synthesizer step at 16 minutes; their timestamps strictly increase in
\* the order they were appended
SnapshotsIncreaseInTime ==
    \A h \in Returned :
        LET session == SessionOf(h)
            snapshots == session.probabilities
            offsets == SnapshotOffsets(session)
        IN  /\ Len(session.proposals) = ProposalsAmong(session, 4)
            /\ Len(snapshots) = 2 + Len(session.proposals)
            /\ Len(snapshots) = Len(offsets)
            /\ \A i \in DOMAIN snapshots :
                   snapshots[i].timestamp = session.createdAt + offsets[i] * 60000
            /\ \A i \in DOMAIN snapshots : \A j \in DOMAIN snapshots :
                   i < j => snapshots[i].timestamp < snapshots[j].timestamp

\* C33: a returned session of a run in which only the planner and the cost
\* role proposed: four snapshots, at 1, 2, 8 and 16 minutes
SnapshotsOfTwoProposals ==
    \E h \in Returned :
        LET session == SessionOf(h)
        IN  /\ HasProposal(session, "planner")
            /\ HasProposal(session, "cost")
            /\ Len(session.proposals) = 2
            /\ [i \in DOMAIN session.probabilities |->
                   session.probabilities[i].timestamp - session.createdAt]
                   = <<60000, 120000, 480000, 960000>>

-----------------------------------------------------------------------------
(* The final plan and the proposals *)

\* the plans of the session that were made from a proposal
ProposedPlanIds(session) ==
    {proposalPlanMap(session.proposals[i].agent) : i \in DOMAIN session.proposals}

\* C34 as stated: the finalPlanId of a returned session names a plan made
\* from a usable proposal, never the placeholder plan of a role whose
\* proposal failed, and the winningAgent is a role among the session's
\* proposals
FinalPlanWasProposed ==
    \A h \in Returned :
        /\ SessionOf(h).finalPlanId \in ProposedPlanIds(SessionOf(h))
        /\ SessionOf(h).winningAgent # NoValue
        /\ HasProposal(SessionOf(h), Get(SessionOf(h).winningAgent))

-----------------------------------------------------------------------------
(* Requests that overlap in time *)

\* no request is in flight
Quiet == \A h \in OverlapSlots : handler[h].pc \in {"idle", "responded"}

\* the handlers that have answered their request with a session
Answered == {h \in OverlapSlots : handler[h].pc = "responded" /\ handler[h].session # NoValue}

\* the ids of the sessions in the persisted list
PersistedIds == {sessionsFile[i].id : i \in DOMAIN sessionsFile}

\* C35 as stated: when two submit-run requests overlap in time, no completed
\* run is lost: once both handlers have finished, the persisted list holds
\* the session of every run that completed
OverlappingRunsAllPersisted ==
    Quiet => \A h \in Answered : SessionOf(h).id \in PersistedIds

\* C36 as stated: once every submit-run request has finished, with a session
\* or with an error, the process-wide LLM_PROVIDER is what it was before the
\* requests started, also when two requests with different providers overlap
ProviderRestoredAfterOverlap ==
    Quiet => processEnv.LLM_PROVIDER = OverlapEnvironment.LLM_PROVIDER

=============================================================================
